---------------------------- MODULE Spec2Model ----------------------------
(***************************************************************************)
(* Medication reconciliation core of vamedrec: the normalizer              *)
(* (core/normalizer.py), the safety validator (tools/safety_checks.py),    *)
(* the audit ledger (tools/ledger.py) and the orchestrator that builds the *)
(* ledger (core/reconciler.py).                                            *)
(*                                                                         *)
(* Python strings are sequences of one-character strings, so that the      *)
(* regular expressions and substring tests of the normalizer are computed  *)
(* as the code computes them.  TLA+ string literals are ASCII: the em dash *)
(* U+2014 of the status vocabulary is written "\\u2014" inside a status    *)
(* literal and the fraction sign U+00BD is the one-character string        *)
(* "\\u00bd".  Strings the code only stores and compares whole (statuses,  *)
(* notes, labels, the model engine's text) are TLA+ strings.               *)
(***************************************************************************)
EXTENDS Integers, Sequences, FiniteSets, TLC

VARIABLES
    pc,                    \* position of the reconcile call ("idle" between calls)
    baseline_meds,         \* reconcile argument: raw strings of the current list
    reference_meds,        \* reconcile argument: raw strings of the previous list
    mode,                  \* reconcile argument
    patient_context,       \* reconcile argument: Optional[Dict] with the labs
    normalized_baseline,   \* local of reconcile: list of Medication
    normalized_reference,  \* local of reconcile: list of Medication
    safety_issues,         \* local of reconcile: list of SafetyIssue
    llm_output,            \* local of reconcile: text returned by the model engine
    entries,               \* ReconciliationLedger.entries of the ledger in use
    validation,            \* last result of validate_completeness
    raised,                \* exception raised by the last call ("None" when none)
    last_call,             \* the last ledger or reconcile call made and its arguments
    returned,              \* what the last call made directly on a component returned
    requests,              \* the locals of the reconcile calls of concurrent requests
    ledgers                \* the ReconciliationLedger objects those calls created

vars == <<pc, baseline_meds, reference_meds, mode, patient_context,
          normalized_baseline, normalized_reference, safety_issues, llm_output,
          entries, validation, raised, last_call, returned, requests,
          ledgers>>

\* Python's None in a field whose other values are character sequences
None == <<"None">>

-----------------------------------------------------------------------------
(* Characters and Python str helpers *)

WS == {" ", "\t", "\n"}

Digits == {"0", "1", "2", "3", "4", "5", "6", "7", "8", "9"}

LowerLetters ==
    {"a", "b", "c", "d", "e", "f", "g", "h", "i", "j", "k", "l", "m",
     "n", "o", "p", "q", "r", "s", "t", "u", "v", "w", "x", "y", "z"}

UPPER ==
    <<"A", "B", "C", "D", "E", "F", "G", "H", "I", "J", "K", "L", "M",
      "N", "O", "P", "Q", "R", "S", "T", "U", "V", "W", "X", "Y", "Z">>

LOWER ==
    <<"a", "b", "c", "d", "e", "f", "g", "h", "i", "j", "k", "l", "m",
      "n", "o", "p", "q", "r", "s", "t", "u", "v", "w", "x", "y", "z">>

HALF == "\\u00bd"

SetMin(S) == CHOOSE x \in S : \A y \in S : x <= y

SetMax(S) == CHOOSE x \in S : \A y \in S : x >= y

\* str.lower() on one character
LowerChar(c) ==
    IF \E i \in DOMAIN UPPER : UPPER[i] = c
    THEN LOWER[CHOOSE i \in DOMAIN UPPER : UPPER[i] = c]
    ELSE c

\* str.lower()
lower(s) == [i \in 1..Len(s) |-> LowerChar(s[i])]

\* str.strip(): leading and trailing whitespace removed
strip(s) ==
    LET keep == {i \in 1..Len(s) : s[i] \notin WS}
    IN  IF keep = {} THEN <<>> ELSE SubSeq(s, SetMin(keep), SetMax(keep))

\* s[p:].startswith(w), p counted from 1
StartsWithAt(s, p, w) ==
    /\ p >= 1
    /\ p + Len(w) - 1 <= Len(s)
    /\ SubSeq(s, p, p + Len(w) - 1) = w

\* w in s
Contains(s, w) == \E p \in 1..(Len(s) + 1) : StartsWithAt(s, p, w)

\* str.split()[0]: the first whitespace-delimited token; split() of a string
\* without any token is [] and [0] raises IndexError
FirstToken(s) ==
    LET keep == {i \in 1..Len(s) : s[i] \notin WS}
        from == SetMin(keep)
        stop == {i \in from..Len(s) : s[i] \in WS}
    IN  IF keep = {} THEN <<"IndexError">>
        ELSE IF stop = {} THEN SubSeq(s, from, Len(s))
        ELSE SubSeq(s, from, SetMin(stop) - 1)

\* the run of characters of class C that starts at p: the position after it
RunEnd(s, p, C) ==
    LET stop == {i \in p..Len(s) : s[i] \notin C}
    IN  IF stop = {} THEN Len(s) + 1 ELSE SetMin(stop)

-----------------------------------------------------------------------------
(* Configuration tables (config.py) and the word lists of the normalizer *)

\* config.BRAND_TO_GENERIC, in dict order: <<brand, generic>>
BRAND_TO_GENERIC ==
    << << <<"t", "y", "l", "e", "n", "o", "l">>,
          <<"a", "c", "e", "t", "a", "m", "i", "n", "o", "p", "h", "e", "n">> >>,
       << <<"m", "o", "t", "r", "i", "n">>,
          <<"i", "b", "u", "p", "r", "o", "f", "e", "n">> >>,
       << <<"a", "d", "v", "i", "l">>,
          <<"i", "b", "u", "p", "r", "o", "f", "e", "n">> >>,
       << <<"l", "a", "s", "i", "x">>,
          <<"f", "u", "r", "o", "s", "e", "m", "i", "d", "e">> >>,
       << <<"g", "l", "u", "c", "o", "p", "h", "a", "g", "e">>,
          <<"m", "e", "t", "f", "o", "r", "m", "i", "n">> >> >>

\* config.ROUTE_SYNONYMS, in dict order: <<synonym, standard>>
ROUTE_SYNONYMS ==
    << << <<"b", "y", " ", "m", "o", "u", "t", "h">>,
          <<"p", "o">> >>,
       << <<"o", "r", "a", "l">>,
          <<"p", "o">> >>,
       << <<"o", "r", "a", "l", "l", "y">>,
          <<"p", "o">> >>,
       << <<"i", "n", "t", "r", "a", "v", "e", "n", "o", "u", "s">>,
          <<"i", "v">> >>,
       << <<"i", "n", "t", "r", "a", "m", "u", "s", "c", "u", "l", "a", "r">>,
          <<"i", "m">> >>,
       << <<"s", "u", "b", "c", "u", "t", "a", "n", "e", "o", "u", "s">>,
          <<"s", "q">> >>,
       << <<"s", "u", "b", "q">>,
          <<"s", "q">> >> >>

\* config.FREQUENCY_SYNONYMS, in dict order: <<synonym, standard>>
FREQUENCY_SYNONYMS ==
    << << <<"o", "n", "c", "e", " ", "d", "a", "i", "l", "y">>,
          <<"d", "a", "i", "l", "y">> >>,
       << <<"q", "d">>,
          <<"d", "a", "i", "l", "y">> >>,
       << <<"o", "n", "c", "e", " ", "a", " ", "d", "a", "y">>,
          <<"d", "a", "i", "l", "y">> >>,
       << <<"b", "i", "d">>,
          <<"t", "w", "i", "c", "e", " ", "d", "a", "i", "l", "y">> >>,
       << <<"t", "w", "i", "c", "e", " ", "a", " ", "d", "a", "y">>,
          <<"t", "w", "i", "c", "e", " ", "d", "a", "i", "l", "y">> >>,
       << <<"t", "i", "d">>,
          <<"t", "h", "r", "e", "e", " ", "t", "i", "m", "e", "s", " ", "d", "a", "i", "l", "y">> >>,
       << <<"q", "i", "d">>,
          <<"f", "o", "u", "r", " ", "t", "i", "m", "e", "s", " ", "d", "a", "i", "l", "y">> >>,
       << <<"q", "h", "s">>,
          <<"a", "t", " ", "b", "e", "d", "t", "i", "m", "e">> >> >>

\* the forms list of _extract_form
FORMS ==
    << <<"t", "a", "b", "l", "e", "t">>,
       <<"t", "a", "b">>,
       <<"c", "a", "p", "s", "u", "l", "e">>,
       <<"c", "a", "p">>,
       <<"i", "n", "j", "e", "c", "t", "i", "o", "n">>,
       <<"s", "o", "l", "u", "t", "i", "o", "n">>,
       <<"c", "r", "e", "a", "m">>,
       <<"o", "i", "n", "t", "m", "e", "n", "t">>,
       <<"g", "e", "l">>,
       <<"p", "a", "t", "c", "h">>,
       <<"i", "n", "h", "a", "l", "e", "r">>,
       <<"d", "r", "o", "p", "s">> >>

\* the routes list of _extract_route
ROUTES ==
    << <<"p", "o">>,
       <<"i", "v">>,
       <<"i", "m">>,
       <<"s", "q">>,
       <<"t", "o", "p", "i", "c", "a", "l">>,
       <<"i", "n", "h", "a", "l", "e", "d">> >>

\* the frequencies list of _extract_frequency
FREQUENCIES ==
    << <<"d", "a", "i", "l", "y">>,
       <<"t", "w", "i", "c", "e", " ", "d", "a", "i", "l", "y">>,
       <<"t", "h", "r", "e", "e", " ", "t", "i", "m", "e", "s", " ", "d", "a", "i", "l", "y">>,
       <<"p", "r", "n">>,
       <<"a", "s", " ", "n", "e", "e", "d", "e", "d">> >>

W_mg == <<"m", "g">>

W_mcg == <<"m", "c", "g">>

W_ml == <<"m", "l">>

W_percent == <<"%">>

W_unit == <<"u", "n", "i", "t">>

W_tablet == <<"t", "a", "b", "l", "e", "t">>

W_capsule == <<"c", "a", "p", "s", "u", "l", "e">>

-----------------------------------------------------------------------------
(* MedicationNormalizer (core/normalizer.py) *)

\* the tail (?:\s+\d|\s+tablet|\s+capsule|\s+$) of the name pattern, tried at q
NameTailAt(s, q) ==
    \E j \in 1..(Len(s) - q + 1) :
        /\ \A i \in q..(q + j - 1) : s[i] \in WS
        /\ \/ (q + j <= Len(s) /\ s[q + j] \in Digits)
           \/ StartsWithAt(s, q + j, W_tablet)
           \/ StartsWithAt(s, q + j, W_capsule)
           \/ q + j = Len(s) + 1
           \/ (q + j = Len(s) /\ s[q + j] = "\n")

\* re.match(r'^([a-z\s\-]+?)(?:\s+\d|\s+tablet|\s+capsule|\s+$)', s): the lengths
\* group 1 can take; the lazy +? takes the smallest
NameMatches(s) ==
    {k \in 1..Len(s) :
        /\ \A i \in 1..k : s[i] \in (LowerLetters \cup WS \cup {"-"})
        /\ NameTailAt(s, k + 1)}

\* _extract_name without the fallback to the first token
_extract_name_no_fallback(med_string) ==
    IF NameMatches(med_string) # {}
    THEN strip(SubSeq(med_string, 1, SetMin(NameMatches(med_string))))
    ELSE <<>>

_extract_name(med_string) ==
    IF NameMatches(med_string) # {}
    THEN strip(SubSeq(med_string, 1, SetMin(NameMatches(med_string))))
    ELSE IF med_string # <<>> THEN FirstToken(med_string) ELSE <<>>

_to_generic(name) ==
    LET name_lower == strip(lower(name))
        hit == {i \in DOMAIN BRAND_TO_GENERIC : BRAND_TO_GENERIC[i][1] = name_lower}
    IN  IF hit # {} THEN BRAND_TO_GENERIC[SetMin(hit)][2] ELSE name_lower

\* \d+\.?\d* tried at p: the position after the match, 0 when it fails
NumberAt(s, p) ==
    LET a == RunEnd(s, p, Digits)
        b == IF a <= Len(s) /\ s[a] = "." THEN a + 1 ELSE a
    IN  IF a = p THEN 0 ELSE RunEnd(s, b, Digits)

\* \d+\.?\d*\s*<unit> tried at p: the position after the match, 0 when it fails
NumUnitAt(s, p, unit) ==
    LET c == NumberAt(s, p)
        d == RunEnd(s, c, WS)
    IN  IF c # 0 /\ StartsWithAt(s, d, unit) THEN d + Len(unit) ELSE 0

\* the six patterns of _extract_strength, tried at p
StrengthAt(s, p, n) ==
    CASE n = 1 ->
            LET q == RunEnd(s, p + 1, WS)
                a == RunEnd(s, q, Digits)
                d == RunEnd(s, a, WS)
            IN  IF s[p] = HALF /\ a > q /\ StartsWithAt(s, d, W_mg)
                THEN d + Len(W_mg) ELSE 0
      [] n = 2 -> NumUnitAt(s, p, W_mg)
      [] n = 3 -> NumUnitAt(s, p, W_mcg)
      [] n = 4 -> NumUnitAt(s, p, W_ml)
      [] n = 5 -> NumUnitAt(s, p, W_percent)
      [] n = 6 ->
            LET e == NumUnitAt(s, p, W_unit)
            IN  IF e # 0 /\ e <= Len(s) /\ s[e] = "s" THEN e + 1 ELSE e

StrengthPatterns == 1..6

\* re.search(pattern n, s): where the leftmost match starts, 0 when none
StrengthSearch(s, n) ==
    LET starts == {p \in 1..Len(s) : StrengthAt(s, p, n) # 0}
    IN  IF starts = {} THEN 0 ELSE SetMin(starts)

_extract_strength(med_string) ==
    LET found == {n \in StrengthPatterns : StrengthSearch(med_string, n) # 0}
        n == SetMin(found)
        p == StrengthSearch(med_string, n)
    IN  IF found = {} THEN None
        ELSE strip(SubSeq(med_string, p, StrengthAt(med_string, p, n) - 1))

DIGITS == <<"0", "1", "2", "3", "4", "5", "6", "7", "8", "9">>

DigitVal(c) == (CHOOSE i \in DOMAIN DIGITS : DIGITS[i] = c) - 1

RECURSIVE DigitsVal(_)
\* int() of a string of digits ("" counts 0)
DigitsVal(ds) ==
    IF ds = <<>> THEN 0
    ELSE 10 * DigitsVal(SubSeq(ds, 1, Len(ds) - 1)) + DigitVal(ds[Len(ds)])

RECURSIVE Pow10(_)
Pow10(n) == IF n = 0 THEN 1 ELSE 10 * Pow10(n - 1)

RECURSIVE DecStr(_)
\* str() of a natural number
DecStr(n) ==
    IF n < 10 THEN <<DIGITS[n + 1]>>
    ELSE Append(DecStr(n \div 10), DIGITS[(n % 10) + 1])

\* the digits after the point of n / 10^w (n < 10^w) as repr() prints them:
\* trailing zeros dropped, one digit kept
FracStr(n, w) ==
    LET d == [i \in 1..w |-> DIGITS[((n \div Pow10(w - i)) % 10) + 1]]
        nz == {i \in 1..w : d[i] # "0"}
    IN  SubSeq(d, 1, IF nz = {} THEN 1 ELSE SetMax(nz))

\* f"{float(num) / 2}" for num matching \d+\.?\d*.  Halving a double is exact,
\* so the text is the decimal expansion of num/2; repr() prints it in this
\* plain form for values in [1e-4, 1e16), which covers every num with at
\* most three digits after the point and fifteen in all.
HalfRepr(num) ==
    LET dots == {i \in 1..Len(num) : num[i] = "."}
        dot == IF dots = {} THEN Len(num) + 1 ELSE SetMin(dots)
        int == SubSeq(num, 1, dot - 1)
        frac == SubSeq(num, dot + 1, Len(num))
        w == Len(frac) + 1
        n == (DigitsVal(int) * Pow10(Len(frac)) + DigitsVal(frac)) * 5
    IN  DecStr(n \div Pow10(w)) \o <<".">> \o FracStr(n % Pow10(w), w)

\* re.search(r'\\u00bd\s*(\d+\.?\d*)\s*(mg|mcg|ml)', strength) tried at p:
\* <<start of group 1, position after group 1, unit>>, <<>> when it fails
HalfDoseAt(s, p) ==
    LET q == RunEnd(s, p + 1, WS)
        c == NumberAt(s, q)
        d == RunEnd(s, c, WS)
        unit == IF StartsWithAt(s, d, W_mg) THEN W_mg
                ELSE IF StartsWithAt(s, d, W_mcg) THEN W_mcg
                ELSE IF StartsWithAt(s, d, W_ml) THEN W_ml
                ELSE <<>>
    IN  IF s[p] = HALF /\ c # 0 /\ unit # <<>> THEN <<q, c, unit>> ELSE <<>>

_normalize_dose(strength) ==
    IF strength = None \/ strength = <<>> THEN None
    ELSE LET starts == {p \in 1..Len(strength) : HalfDoseAt(strength, p) # <<>>}
             m == HalfDoseAt(strength, SetMin(starts))
         IN  IF starts # {}
             THEN HalfRepr(SubSeq(strength, m[1], m[2] - 1)) \o m[3]
             ELSE strength

\* the first word of the list that is a substring of s, None when none is
FirstContained(s, words) ==
    LET hit == {i \in DOMAIN words : Contains(s, words[i])}
    IN  IF hit = {} THEN None ELSE words[SetMin(hit)]

_extract_form(med_string) == FirstContained(med_string, FORMS)

\* the standard value of the first synonym of the table that is a substring
\* of s, else the first word of the direct list that is, else None
SynonymOrDirect(s, table, direct) ==
    LET hit == {i \in DOMAIN table : Contains(s, table[i][1])}
    IN  IF hit # {} THEN table[SetMin(hit)][2] ELSE FirstContained(s, direct)

_extract_route(med_string) == SynonymOrDirect(med_string, ROUTE_SYNONYMS, ROUTES)

_extract_frequency(med_string) ==
    SynonymOrDirect(med_string, FREQUENCY_SYNONYMS, FREQUENCIES)

\* Medication(...) as normalize constructs it; the fields the dataclass
\* defaults (instructions, is_active, expiration_date) are never read or
\* written by the code modelled here and are left out
Medication(med_string, name, strength) ==
    [raw_input |-> med_string,
     name |-> name,
     generic_name |-> _to_generic(name),
     strength |-> strength,
     form |-> _extract_form(med_string),
     route |-> _extract_route(med_string),
     frequency |-> _extract_frequency(med_string),
     normalized_dose |-> _normalize_dose(strength),
     status |-> "None"]

\* the statements of normalize after med_string is assigned; name and
\* strength are bound to their values before the record is built
normalize_stripped(med_string) ==
    CHOOSE med \in {Medication(med_string, name, strength) :
                       name \in {_extract_name(med_string)},
                       strength \in {_extract_strength(med_string)}} : TRUE

normalize(raw) ==
    CHOOSE med \in {normalize_stripped(med_string) :
                       med_string \in {lower(strip(raw))}} : TRUE

\* check_equivalence comparing the frequency as well
check_equivalence_with_frequency(med1, med2) ==
    /\ med1.generic_name = med2.generic_name
    /\ med1.route = med2.route
    /\ med1.normalized_dose = med2.normalized_dose
    /\ med1.frequency = med2.frequency

\* check_equivalence taking a missing route of med1 for any route
check_equivalence_route_wildcard(med1, med2) ==
    /\ med1.generic_name = med2.generic_name
    /\ (med1.route = None \/ med1.route = med2.route)
    /\ med1.normalized_dose = med2.normalized_dose

check_equivalence(med1, med2) ==
    IF med1.generic_name # med2.generic_name THEN FALSE
    ELSE IF med1.route # med2.route THEN FALSE
    ELSE IF med1.normalized_dose = med2.normalized_dose THEN TRUE
    ELSE FALSE

\* tag_directionality sets .status of every medication of a list to its label
tag(meds, label) == [i \in 1..Len(meds) |-> [meds[i] EXCEPT !.status = label]]

-----------------------------------------------------------------------------
(* ReconciliationLedger (tools/ledger.py) *)

CONTINUED_NO_CHANGE == "Continued\\u2014No Change"

UNMATCHED_VERIFY == "Unmatched\\u2014Verify"

\* config.LEDGER_STATUSES
LEDGER_STATUSES ==
    <<"New", "Not Continued", "Changed", CONTINUED_NO_CHANGE, UNMATCHED_VERIFY>>

\* a ledger that takes any status
valid_status_any(status) == TRUE

\* status in self.valid_statuses
valid_status(status) == \E i \in DOMAIN LEDGER_STATUSES : LEDGER_STATUSES[i] = status

LedgerEntry(input_medication, reconciliation_status, output_medication, notes) ==
    [input_medication |-> input_medication,
     reconciliation_status |-> reconciliation_status,
     output_medication |-> output_medication,
     notes |-> notes]

\* ReconciliationLedger(): a ledger is its entries and the exception its last
\* add_entry raised ("None": it returned)
NewLedger == [entries |-> <<>>, raised |-> "None"]

\* add_entry putting the new entry first
add_entry_prepend(ledger, input_med, status, output_med, notes) ==
    IF ~valid_status(status)
    THEN [ledger EXCEPT !.raised = "ValueError"]
    ELSE [entries |-> <<LedgerEntry(input_med.raw_input, status, output_med, notes)>>
                          \o ledger.entries,
          raised |-> "None"]

\* add_entry appending before it looks at the status
add_entry_append_first(ledger, input_med, status, output_med, notes) ==
    [entries |-> Append(ledger.entries,
                        LedgerEntry(input_med.raw_input, status, output_med, notes)),
     raised |-> IF valid_status(status) THEN "None" ELSE "ValueError"]

add_entry(ledger, input_med, status, output_med, notes) ==
    IF ~valid_status(status)
    THEN [ledger EXCEPT !.raised = "ValueError"]
    ELSE [entries |-> Append(ledger.entries,
                             LedgerEntry(input_med.raw_input, status, output_med, notes)),
          raised |-> "None"]

\* validate_completeness reporting every input as missing
validate_completeness_all_inputs(ledger_entries, input_medications) ==
    IF Len(input_medications) = Len(ledger_entries)
    THEN [is_complete |-> TRUE,
          input_count |-> Len(input_medications),
          ledger_count |-> Len(ledger_entries),
          missing_count |-> 0]
    ELSE [is_complete |-> FALSE,
          input_count |-> Len(input_medications),
          ledger_count |-> Len(ledger_entries),
          missing_count |-> Len(input_medications) - Len(ledger_entries),
          missing_medications |->
              {input_medications[i].raw_input : i \in DOMAIN input_medications}]

\* the dict validate_completeness returns; missing_medications (a list made
\* from a set, so in no defined order) is the set
validate_completeness(ledger_entries, input_medications) ==
    LET input_count == Len(input_medications)
        ledger_count == Len(ledger_entries)
        is_complete == input_count = ledger_count
        input_raws == {input_medications[i].raw_input : i \in DOMAIN input_medications}
        ledger_raws == {ledger_entries[i].input_medication : i \in DOMAIN ledger_entries}
    IN  IF is_complete
        THEN [is_complete |-> TRUE,
              input_count |-> input_count,
              ledger_count |-> ledger_count,
              missing_count |-> 0]
        ELSE [is_complete |-> FALSE,
              input_count |-> input_count,
              ledger_count |-> ledger_count,
              missing_count |-> input_count - ledger_count,
              missing_medications |-> input_raws \ ledger_raws]

\* how many entries have the status
StatusCount(ledger_entries, status) ==
    Cardinality({k \in DOMAIN ledger_entries :
                    ledger_entries[k].reconciliation_status = status})

\* get_summary: the dict from each status of the vocabulary to its count
get_summary(ledger_entries) ==
    [status \in {LEDGER_STATUSES[i] : i \in DOMAIN LEDGER_STATUSES} |->
        StatusCount(ledger_entries, status)]

\* for status, count in summary.items(): if count > 0: one line
SummaryLines(ledger_entries) ==
    LET used == SelectSeq(LEDGER_STATUSES,
                          LAMBDA status : get_summary(ledger_entries)[status] > 0)
    IN  [k \in 1..Len(used) |-> <<used[k], get_summary(ledger_entries)[used[k]]>>]

\* format_as_table: the markdown text, as its heading, its rows (one per
\* entry, numbered from 1), the total and the summary lines
format_as_table(ledger_entries) ==
    IF ledger_entries = <<>>
    THEN [heading |-> "**Ledger is empty.**", rows |-> <<>>, total |-> 0,
          summary |-> <<>>]
    ELSE [heading |-> "## Reconciliation Ledger",
          rows |-> [idx \in DOMAIN ledger_entries |->
                       <<idx,
                         ledger_entries[idx].input_medication,
                         ledger_entries[idx].reconciliation_status,
                         ledger_entries[idx].output_medication,
                         ledger_entries[idx].notes>>],
          total |-> Len(ledger_entries),
          summary |-> SummaryLines(ledger_entries)]

\* format_summary_section
format_summary_section(ledger_entries) ==
    [heading |-> "### Summary",
     total |-> Len(ledger_entries),
     summary |-> SummaryLines(ledger_entries)]

\* get_issues_for_review: the entries that need a clinician
get_issues_for_review(ledger_entries) ==
    SelectSeq(ledger_entries,
              LAMBDA entry : entry.reconciliation_status = "Unmatched\\u2014Verify")

\* format_issues_section: one numbered item per entry to review, with its
\* notes when it has any
format_issues_section(ledger_entries) ==
    LET issues == get_issues_for_review(ledger_entries)
    IN  IF issues = <<>>
        THEN [heading |-> "### Issues to Review", none |-> TRUE, items |-> <<>>]
        ELSE [heading |-> "### Issues to Review", none |-> FALSE,
              items |-> [idx \in DOMAIN issues |->
                            <<idx, issues[idx].input_medication,
                              IF issues[idx].notes # "" THEN <<issues[idx].notes>>
                              ELSE <<>> >>]]

-----------------------------------------------------------------------------
(* MedicationReconciler._build_ledger (core/reconciler.py) *)

\* the dict with the first medication of each generic name kept
generics_first_wins(meds) ==
    [g \in {meds[i].generic_name : i \in DOMAIN meds} |->
        meds[SetMin({i \in DOMAIN meds : meds[i].generic_name = g})]]

\* {m.generic_name: m for m in meds}: a later medication replaces an earlier
\* one of the same generic name
generics(meds) ==
    [g \in {meds[i].generic_name : i \in DOMAIN meds} |->
        meds[SetMax({i \in DOMAIN meds : meds[i].generic_name = g})]]

\* the first loop without the equivalence test
baseline_status_no_equivalence(med, reference_generics) ==
    IF med.generic_name \in DOMAIN reference_generics THEN "Changed" ELSE "New"

\* the first loop sending an unmatched baseline medication to review
baseline_status_verify(med, reference_generics) ==
    IF med.generic_name \in DOMAIN reference_generics
    THEN IF check_equivalence(med, reference_generics[med.generic_name])
         THEN CONTINUED_NO_CHANGE
         ELSE "Changed"
    ELSE UNMATCHED_VERIFY

\* the status the first loop gives a baseline medication
baseline_status(med, reference_generics) ==
    IF med.generic_name \in DOMAIN reference_generics
    THEN IF check_equivalence(med, reference_generics[med.generic_name])
         THEN CONTINUED_NO_CHANGE
         ELSE "Changed"
    ELSE "New"

\* the add_entry call of the first loop
add_baseline_entry(ledger, med, reference_generics) ==
    add_entry(ledger, med, baseline_status(med, reference_generics), med.raw_input, "")

RECURSIVE process_baseline(_, _, _)
\* for med in baseline_meds: ...; an exception of add_entry ends the loop
process_baseline(ledger, meds, reference_generics) ==
    IF meds = <<>> \/ ledger.raised # "None" THEN ledger
    ELSE process_baseline(add_baseline_entry(ledger, Head(meds), reference_generics),
                          Tail(meds), reference_generics)

\* the second loop without its test
not_in_baseline_always(med, baseline_generics) == TRUE

\* the test of the second loop: the reference medication was not continued
not_in_baseline(med, baseline_generics) ==
    med.generic_name \notin DOMAIN baseline_generics

\* the second loop's add_entry with the output of the first loop's
add_reference_entry_with_output(ledger, med) ==
    add_entry(ledger, med, "Not Continued", med.raw_input,
              "Not continued from previous list")

\* the add_entry call of the second loop
add_reference_entry(ledger, med) ==
    add_entry(ledger, med, "Not Continued", <<>>, "Not continued from previous list")

RECURSIVE process_reference(_, _, _)
\* for med in reference_meds: if med.generic_name not in baseline_generics: ...
process_reference(ledger, meds, baseline_generics) ==
    IF meds = <<>> \/ ledger.raised # "None" THEN ledger
    ELSE process_reference(
             IF not_in_baseline(Head(meds), baseline_generics)
             THEN add_reference_entry(ledger, Head(meds))
             ELSE ledger,
             Tail(meds), baseline_generics)

\* the two loops in the other order
_build_ledger_reference_first(baseline, reference, llm) ==
    process_baseline(
        process_reference(NewLedger, reference, generics(baseline)),
        baseline, generics(reference))

\* llm_output is a parameter the body never reads
_build_ledger(baseline, reference, llm) ==
    process_reference(
        process_baseline(NewLedger, baseline, generics(reference)),
        reference, generics(baseline))

-----------------------------------------------------------------------------
(* SafetyValidator (tools/safety_checks.py) *)

\* config.THERAPEUTIC_CLASSES, in dict order
THERAPEUTIC_CLASSES ==
    <<
       [class_name |-> <<"n", "s", "a", "i", "d">>,
        drug_list |->
            << <<"i", "b", "u", "p", "r", "o", "f", "e", "n">>,
               <<"n", "a", "p", "r", "o", "x", "e", "n">>,
               <<"k", "e", "t", "o", "r", "o", "l", "a", "c">>,
               <<"d", "i", "c", "l", "o", "f", "e", "n", "a", "c">> >>],
       [class_name |-> <<"s", "s", "r", "i">>,
        drug_list |->
            << <<"f", "l", "u", "o", "x", "e", "t", "i", "n", "e">>,
               <<"s", "e", "r", "t", "r", "a", "l", "i", "n", "e">>,
               <<"c", "i", "t", "a", "l", "o", "p", "r", "a", "m">>,
               <<"e", "s", "c", "i", "t", "a", "l", "o", "p", "r", "a", "m">> >>],
       [class_name |-> <<"s", "t", "a", "t", "i", "n">>,
        drug_list |->
            << <<"a", "t", "o", "r", "v", "a", "s", "t", "a", "t", "i", "n">>,
               <<"s", "i", "m", "v", "a", "s", "t", "a", "t", "i", "n">>,
               <<"r", "o", "s", "u", "v", "a", "s", "t", "a", "t", "i", "n">>,
               <<"p", "r", "a", "v", "a", "s", "t", "a", "t", "i", "n">> >>],
       [class_name |-> <<"p", "p", "i">>,
        drug_list |->
            << <<"o", "m", "e", "p", "r", "a", "z", "o", "l", "e">>,
               <<"p", "a", "n", "t", "o", "p", "r", "a", "z", "o", "l", "e">>,
               <<"e", "s", "o", "m", "e", "p", "r", "a", "z", "o", "l", "e">>,
               <<"l", "a", "n", "s", "o", "p", "r", "a", "z", "o", "l", "e">> >>]
    >>

\* config.RENAL_CONTRAINDICATIONS, in dict order
RENAL_CONTRAINDICATIONS ==
    <<
       [key |-> <<"m", "e", "t", "f", "o", "r", "m", "i", "n">>,
        egfr_threshold |-> 30,
        reason |->
            <<"L", "a", "c", "t", "i", "c", " ", "a", "c", "i", "d", "o", "s", "i", "s", " ", "r", "i", "s", "k">>],
       [key |-> <<"n", "s", "a", "i", "d">>,
        egfr_threshold |-> 30,
        reason |->
            <<"A", "c", "u", "t", "e", " ", "k", "i", "d", "n", "e", "y", " ", "i", "n", "j", "u", "r", "y", " ", "r", "i", "s", "k">>],
       [key |-> <<"d", "a", "b", "i", "g", "a", "t", "r", "a", "n">>,
        egfr_threshold |-> 30,
        reason |->
            <<"I", "n", "c", "r", "e", "a", "s", "e", "d", " ", "b", "l", "e", "e", "d", "i", "n", "g", " ", "r", "i", "s", "k">>]
    >>

\* config.HIGH_SEVERITY_INTERACTIONS
HIGH_SEVERITY_INTERACTIONS ==
    <<
       [drug1 |-> <<"w", "a", "r", "f", "a", "r", "i", "n">>,
        drug2 |-> <<"n", "s", "a", "i", "d">>,
        risk |->
            <<"M", "a", "j", "o", "r", " ", "b", "l", "e", "e", "d", "i", "n", "g">>],
       [drug1 |-> <<"m", "e", "t", "h", "o", "t", "r", "e", "x", "a", "t", "e">>,
        drug2 |-> <<"n", "s", "a", "i", "d">>,
        risk |->
            <<"M", "e", "t", "h", "o", "t", "r", "e", "x", "a", "t", "e", " ", "t", "o", "x", "i", "c", "i", "t", "y">>],
       [drug1 |-> <<"s", "s", "r", "i">>,
        drug2 |-> <<"m", "a", "o", "i">>,
        risk |->
            <<"S", "e", "r", "o", "t", "o", "n", "i", "n", " ", "s", "y", "n", "d", "r", "o", "m", "e">>]
    >>

\* Optional[X]: None is the empty sequence, a value x is <<x>>
NoneValue == <<>>

Some(x) == <<x>>

\* a Python dict is the set of its <<key, value>> pairs; d.get(key)
Get(d, key) ==
    IF \E p \in d : p[1] = key
    THEN Some((CHOOSE p \in d : p[1] = key)[2])
    ELSE NoneValue

\* truth value of an Optional[Dict]: None and {} are false
Truthy(opt) == opt # NoneValue /\ opt[1] # {}

\* str.upper() on one character
UpperChar(c) ==
    IF \E i \in DOMAIN LOWER : LOWER[i] = c
    THEN UPPER[CHOOSE i \in DOMAIN LOWER : LOWER[i] = c]
    ELSE c

\* str.upper()
upper(s) == [i \in 1..Len(s) |-> UpperChar(s[i])]

\* a cased character
IsLetter(c) ==
    \/ \E i \in DOMAIN LOWER : LOWER[i] = c
    \/ \E i \in DOMAIN UPPER : UPPER[i] = c

\* str.title(): a letter that follows no letter is upper-cased, every other
\* letter lower-cased
title(s) ==
    [i \in 1..Len(s) |->
        IF i = 1 \/ ~IsLetter(s[i - 1]) THEN UpperChar(s[i]) ELSE LowerChar(s[i])]

RECURSIVE join(_, _)
\* sep.join(words)
join(sep, words) ==
    IF words = <<>> THEN <<>>
    ELSE IF Len(words) = 1 THEN words[1]
    ELSE words[1] \o sep \o join(sep, Tail(words))

\* x in lst, for a list
InList(x, lst) == \E i \in DOMAIN lst : lst[i] = x

\* [f(i) for i in 1..n if i in S], in increasing order of i
Positions(n, S) == SelectSeq([i \in 1..n |-> i], LAMBDA i : i \in S)

\* an f-string: its text with the formatted values taken out, and the values
FString(template, values) == [template |-> template, values |-> values]

SafetyIssue(severity, category, description, affected_meds) ==
    [severity |-> severity,
     category |-> category,
     description |-> description,
     affected_meds |-> affected_meds]

\* the issue of one repeated generic name
ExactDuplicateIssue(generic) ==
    SafetyIssue("moderate", "duplication",
                FString("Duplicate medication: {} appears multiple times",
                        <<generic>>),
                <<generic>>)

\* seen_generics remembering the previous medication only
SeenJustBefore(medications, i) ==
    /\ i > 1
    /\ medications[i - 1].generic_name = medications[i].generic_name

\* generic in seen_generics when the loop reaches position i
SeenBefore(medications, i) ==
    \E j \in 1..(i - 1) : medications[j].generic_name = medications[i].generic_name

\* first loop of check_duplications
ExactDuplicates(medications) ==
    LET hits == Positions(Len(medications),
                          {i \in DOMAIN medications : SeenBefore(medications, i)})
    IN  [k \in 1..Len(hits) |-> ExactDuplicateIssue(medications[hits[k]].generic_name)]

\* found_drugs of one class
found_drugs(medications, drug_list) ==
    LET hits == Positions(Len(medications),
                          {i \in DOMAIN medications :
                               InList(medications[i].generic_name, drug_list)})
    IN  [k \in 1..Len(hits) |-> medications[hits[k]].generic_name]

\* len(found_drugs) > 1
ClassDuplicated(found) == Len(found) > 1

ClassDuplicateIssue(class_name, found) ==
    SafetyIssue("moderate", "duplication",
                FString("Multiple {} drugs: {}",
                        <<class_name, join(<<",", " ">>, found)>>),
                found)

\* second loop of check_duplications
ClassDuplicates(medications) ==
    LET hits == Positions(Len(THERAPEUTIC_CLASSES),
                          {c \in DOMAIN THERAPEUTIC_CLASSES :
                               ClassDuplicated(found_drugs(medications,
                                                  THERAPEUTIC_CLASSES[c].drug_list))})
    IN  [k \in 1..Len(hits) |->
            ClassDuplicateIssue(THERAPEUTIC_CLASSES[hits[k]].class_name,
                                found_drugs(medications,
                                            THERAPEUTIC_CLASSES[hits[k]].drug_list))]

check_duplications(medications) ==
    ExactDuplicates(medications) \o ClassDuplicates(medications)

\* the drug looked up as a whole generic name
drug_present_exact(drug, medications) ==
    \E i \in DOMAIN medications : medications[i].generic_name = drug

\* any(drug in name for name in med_names)
drug_present(drug, medications) ==
    \E i \in DOMAIN medications : Contains(medications[i].generic_name, drug)

InteractionIssue(interaction) ==
    SafetyIssue("high", "interaction",
                FString("{} + {}: {}",
                        <<title(interaction.drug1), title(interaction.drug2),
                          interaction.risk>>),
                <<interaction.drug1, interaction.drug2>>)

check_interactions(medications) ==
    LET hits == Positions(Len(HIGH_SEVERITY_INTERACTIONS),
                          {x \in DOMAIN HIGH_SEVERITY_INTERACTIONS :
                               /\ drug_present(HIGH_SEVERITY_INTERACTIONS[x].drug1,
                                               medications)
                               /\ drug_present(HIGH_SEVERITY_INTERACTIONS[x].drug2,
                                               medications)})
    IN  [k \in 1..Len(hits) |-> InteractionIssue(HIGH_SEVERITY_INTERACTIONS[hits[k]])]

\* the issue of an entry of RENAL_CONTRAINDICATIONS keyed by the generic name
RenalExactIssue(generic, egfr, contraindication) ==
    SafetyIssue("high", "renal",
                FString("{} contraindicated with eGFR {} (threshold: {}). Reason: {}",
                        <<title(generic), DecStr(egfr),
                          DecStr(contraindication.egfr_threshold),
                          contraindication.reason>>),
                <<generic>>)

\* the issue of an entry of RENAL_CONTRAINDICATIONS keyed by a therapeutic class
RenalClassIssue(generic, egfr, contraindication) ==
    SafetyIssue("high", "renal",
                FString("{} ({}) contraindicated with eGFR {}. Reason: {}",
                        <<title(generic), upper(contraindication.key),
                          DecStr(egfr), contraindication.reason>>),
                <<generic>>)

\* egfr < contraindication["egfr_threshold"] with <= in its place
below_threshold_inclusive(egfr, threshold) == egfr <= threshold

\* egfr < contraindication["egfr_threshold"]
below_threshold(egfr, threshold) == egfr < threshold

\* the entries of RENAL_CONTRAINDICATIONS whose key is the generic name
RenalExactHits(generic, egfr) ==
    {r \in DOMAIN RENAL_CONTRAINDICATIONS :
        /\ RENAL_CONTRAINDICATIONS[r].key = generic
        /\ below_threshold(egfr, RENAL_CONTRAINDICATIONS[r].egfr_threshold)}

\* the entries of RENAL_CONTRAINDICATIONS whose key is a therapeutic class
\* that has the generic name
RenalClassHits(generic, egfr) ==
    {r \in DOMAIN RENAL_CONTRAINDICATIONS :
        /\ \E c \in DOMAIN THERAPEUTIC_CLASSES :
               /\ THERAPEUTIC_CLASSES[c].class_name = RENAL_CONTRAINDICATIONS[r].key
               /\ InList(generic, THERAPEUTIC_CLASSES[c].drug_list)
        /\ below_threshold(egfr, RENAL_CONTRAINDICATIONS[r].egfr_threshold)}

\* the body of the loop of check_renal_contraindications for one medication
RenalIssuesOf(generic, egfr) ==
    LET exact == Positions(Len(RENAL_CONTRAINDICATIONS), RenalExactHits(generic, egfr))
        class == Positions(Len(RENAL_CONTRAINDICATIONS), RenalClassHits(generic, egfr))
    IN  [k \in 1..Len(exact) |->
            RenalExactIssue(generic, egfr, RENAL_CONTRAINDICATIONS[exact[k]])]
        \o [k \in 1..Len(class) |->
               RenalClassIssue(generic, egfr, RENAL_CONTRAINDICATIONS[class[k]])]

RECURSIVE RenalLoop(_, _)
\* for med in medications: ...
RenalLoop(medications, egfr) ==
    IF medications = <<>> THEN <<>>
    ELSE RenalIssuesOf(Head(medications).generic_name, egfr)
             \o RenalLoop(Tail(medications), egfr)

\* labs is a dict here; without an "egfr" key it returns no issue
check_renal_contraindications(medications, labs) ==
    IF Get(labs, "egfr") = NoneValue THEN <<>>
    ELSE RenalLoop(medications, Get(labs, "egfr")[1])

\* the three checks with the renal check run first
validate_all_renal_first(medications, labs) ==
    (IF Truthy(labs)
     THEN check_renal_contraindications(medications, labs[1])
     ELSE <<>>)
        \o check_duplications(medications)
        \o check_interactions(medications)

\* labs is Optional[Dict]: the renal check runs when labs is a non-empty dict
validate_all(medications, labs) ==
    check_duplications(medications)
        \o check_interactions(medications)
        \o (IF Truthy(labs)
            THEN check_renal_contraindications(medications, labs[1])
            ELSE <<>>)

-----------------------------------------------------------------------------
(* Inputs *)

\* "Metformin 500mg PO BID"
METFORMIN_BID ==
    <<"M", "e", "t", "f", "o", "r", "m", "i", "n", " ", "5", "0", "0",
      "m", "g", " ", "P", "O", " ", "B", "I", "D">>

\* "Metformin 500mg PO daily"
METFORMIN_DAILY ==
    <<"M", "e", "t", "f", "o", "r", "m", "i", "n", " ", "5", "0", "0",
      "m", "g", " ", "P", "O", " ", "d", "a", "i", "l", "y">>

\* "Metformin 500mg IV BID"
METFORMIN_IV ==
    <<"M", "e", "t", "f", "o", "r", "m", "i", "n", " ", "5", "0", "0",
      "m", "g", " ", "I", "V", " ", "B", "I", "D">>

\* "Glucophage 500mg PO BID"
GLUCOPHAGE_BID ==
    <<"G", "l", "u", "c", "o", "p", "h", "a", "g", "e", " ", "5", "0",
      "0", "m", "g", " ", "P", "O", " ", "B", "I", "D">>

\* "Lisinopril 20mg PO daily"
LISINOPRIL_20 ==
    <<"L", "i", "s", "i", "n", "o", "p", "r", "i", "l", " ", "2", "0",
      "m", "g", " ", "P", "O", " ", "d", "a", "i", "l", "y">>

\* "Lisinopril 10mg PO daily"
LISINOPRIL_10 ==
    <<"L", "i", "s", "i", "n", "o", "p", "r", "i", "l", " ", "1", "0",
      "m", "g", " ", "P", "O", " ", "d", "a", "i", "l", "y">>

\* "Aspirin 81mg PO daily"
ASPIRIN_81 ==
    <<"A", "s", "p", "i", "r", "i", "n", " ", "8", "1", "m", "g", " ",
      "P", "O", " ", "d", "a", "i", "l", "y">>

\* ""
EMPTY ==
    <<>>

\* "Ibuprofen 400mg PO"
IBUPROFEN_400 ==
    <<"I", "b", "u", "p", "r", "o", "f", "e", "n", " ", "4", "0", "0", "m", "g", " ", "P", "O">>

\* "Naproxen 250mg PO"
NAPROXEN_250 ==
    <<"N", "a", "p", "r", "o", "x", "e", "n", " ", "2", "5", "0", "m", "g", " ", "P", "O">>

\* "Advil 200mg"
ADVIL_200 ==
    <<"A", "d", "v", "i", "l", " ", "2", "0", "0", "m", "g">>

\* "Dabigatran 150mg PO BID"
DABIGATRAN_150 ==
    <<"D", "a", "b", "i", "g", "a", "t", "r", "a", "n", " ", "1", "5", "0", "m", "g", " ", "P", "O", " ", "B", "I", "D">>

\* "Warfarin sodium 5mg PO daily"
WARFARIN_SODIUM_5 ==
    <<"W", "a", "r", "f", "a", "r", "i", "n", " ", "s", "o", "d", "i", "u",
      "m", " ", "5", "m", "g", " ", "P", "O", " ", "d", "a", "i", "l", "y">>

\* "Methotrexate 10mg PO"
METHOTREXATE_10 ==
    <<"M", "e", "t", "h", "o", "t", "r", "e", "x", "a", "t", "e", " ", "1",
      "0", "m", "g", " ", "P", "O">>

\* "NSAID 200mg PO"
NSAID_200 ==
    <<"N", "S", "A", "I", "D", " ", "2", "0", "0", "m", "g", " ", "P", "O">>

\* the raw medication strings a caller passes
Catalog ==
    {METFORMIN_BID, METFORMIN_DAILY, METFORMIN_IV, GLUCOPHAGE_BID,
     LISINOPRIL_20, LISINOPRIL_10, ASPIRIN_81, EMPTY}

\* the raw medication strings of the lists the safety checks are called on:
\* two drugs of a therapeutic class, a brand of one of them, two drugs with a
\* renal contraindication of their own, one the tables do not know, and the
\* drugs of two interaction pairs, one of them under a two-word name
SafetyCatalog ==
    {IBUPROFEN_400, NAPROXEN_250, ADVIL_200, DABIGATRAN_150, METFORMIN_BID,
     ASPIRIN_81, WARFARIN_SODIUM_5, METHOTREXATE_10, NSAID_200}

\* the most medications in the two lists of one reconcile call together
MaxMeds == 3

\* normalize is a function of its argument alone: its value on each string of
\* the catalog, computed once
Normalized == [raw \in Catalog \cup SafetyCatalog |-> normalize(raw)]

normalize_batch(med_list) == [i \in 1..Len(med_list) |-> Normalized[med_list[i]]]

RECURSIVE ListsOf(_, _)
\* the lists of exactly n elements of S
ListsOf(S, n) ==
    IF n = 0 THEN {<<>>}
    ELSE {<<x>> \o l : x \in S, l \in ListsOf(S, n - 1)}

\* the lists of at most n elements of S
ListsUpTo(S, n) == UNION {ListsOf(S, k) : k \in 0..n}

\* the values of the mode argument: the two the code knows and one it rejects
MODES == {"simple", "comprehensive", "detailed"}

\* texts the model engine may return (core/model_engine.py); the engine is an
\* external service, so any of them may come back for any input
LLM_OUTPUTS == {"reconciliation text A", "reconciliation text B"}

\* the patient_context a caller passes: none, or, "for comprehensive mode"
\* (main.py), one with the labs of a patient in renal failure
CONTEXTS(md) ==
    IF md = "comprehensive"
    THEN {Some({<<"labs", {<<"egfr", 25>>}>>})}
    ELSE {NoneValue}

\* the default labels of reconcile
BASELINE_LABEL == "Current (Now)"

REFERENCE_LABEL == "Previous (Then)"

\* no value: a local not yet assigned, a call that returned None
NoResult == <<>>

NoCall == [op |-> "None", status |-> "None"]

\* the requests served at the same time, each by a thread of its own that
\* calls reconcile on the one module-level MedicationReconciler
REQUESTS == {"request 1", "request 2"}

\* the locals of a reconcile call that has not started
IdleRequest ==
    [pc |-> "idle",
     baseline_meds |-> <<>>,
     reference_meds |-> <<>>,
     mode |-> "None",
     patient_context |-> NoneValue,
     normalized_baseline |-> <<>>,
     normalized_reference |-> <<>>,
     safety_issues |-> <<>>,
     llm_output |-> "None",
     ledger |-> 0,
     baseline_generics |-> <<>>,
     reference_generics |-> <<>>,
     med |-> 0,
     validation |-> NoResult,
     raised |-> "None"]

NoRequests == [t \in REQUESTS |-> IdleRequest]

\* the identities of the ReconciliationLedger objects alive at one time: one
\* for each request at most
LEDGER_IDS == 1..Cardinality(REQUESTS)

\* the place of a ledger object that does not exist
NoLedger == [entries |-> <<>>, raised |-> "unallocated"]

NoLedgers == [id \in LEDGER_IDS |-> NoLedger]

-----------------------------------------------------------------------------
(* MedicationReconciler.reconcile (core/reconciler.py), statement by statement *)

Init ==
    /\ pc = "idle"
    /\ baseline_meds = <<>>
    /\ reference_meds = <<>>
    /\ mode = "None"
    /\ normalized_baseline = <<>>
    /\ normalized_reference = <<>>
    /\ llm_output = "None"
    /\ entries = <<>>
    /\ validation = NoResult
    /\ raised = "None"
    /\ last_call = NoCall
    /\ patient_context = NoneValue
    /\ safety_issues = <<>>
    /\ returned = NoResult
    /\ requests = NoRequests
    /\ ledgers = NoLedgers

\* reconciler.reconcile(baseline_meds=b, reference_meds=r, mode=md) is called
Reconcile(b, r, md, context) ==
    /\ pc = "idle"
    /\ pc' = "normalize"
    /\ baseline_meds' = b
    /\ reference_meds' = r
    /\ mode' = md
    /\ patient_context' = context
    /\ last_call' = [op |-> "reconcile", status |-> "None"]
    /\ UNCHANGED <<normalized_baseline, normalized_reference, safety_issues,
                   llm_output, entries, validation, raised, returned>>
    /\ UNCHANGED <<requests, ledgers>>

\* Step 1: normalize_batch of both lists
Step1_Normalize ==
    /\ pc = "normalize"
    /\ pc' = "tag"
    /\ normalized_baseline' = normalize_batch(baseline_meds)
    /\ normalized_reference' = normalize_batch(reference_meds)
    /\ UNCHANGED <<baseline_meds, reference_meds, mode, llm_output, entries,
                   validation, raised, last_call>>
    /\ UNCHANGED <<patient_context, safety_issues, returned>>
    /\ UNCHANGED <<requests, ledgers>>

\* Step 2: tag_directionality writes the labels into the Medication objects
Step2_Tag ==
    /\ pc = "tag"
    /\ pc' = "safety"
    /\ normalized_baseline' = tag(normalized_baseline, BASELINE_LABEL)
    /\ normalized_reference' = tag(normalized_reference, REFERENCE_LABEL)
    /\ UNCHANGED <<baseline_meds, reference_meds, mode, llm_output, entries,
                   validation, raised, last_call>>
    /\ UNCHANGED <<patient_context, safety_issues, returned>>
    /\ UNCHANGED <<requests, ledgers>>

\* Step 3: the safety checks on baseline followed by reference
Step3_Safety ==
    /\ pc = "safety"
    /\ pc' = "llm"
    /\ LET all_meds == normalized_baseline \o normalized_reference
           labs == IF Truthy(patient_context)
                   THEN Get(patient_context[1], "labs")
                   ELSE NoneValue
       IN  safety_issues' = validate_all(all_meds, labs)
    /\ UNCHANGED <<baseline_meds, reference_meds, mode, patient_context,
                   normalized_baseline, normalized_reference, llm_output,
                   entries, validation, raised, last_call, returned>>
    /\ UNCHANGED <<requests, ledgers>>

\* Step 4: the model engine returns a text or raises RuntimeError
\* (model_engine.py _call_llm); any other mode raises ValueError
Step4_LLM ==
    /\ pc = "llm"
    /\ \/ /\ mode \in {"simple", "comprehensive"}
          /\ \E text \in LLM_OUTPUTS : llm_output' = text
          /\ pc' = "build"
          /\ UNCHANGED raised
       \/ /\ mode \in {"simple", "comprehensive"}
          /\ raised' = "RuntimeError"
          /\ pc' = "raised"
          /\ UNCHANGED llm_output
       \/ /\ mode \notin {"simple", "comprehensive"}
          /\ raised' = "ValueError"
          /\ pc' = "raised"
          /\ UNCHANGED llm_output
    /\ UNCHANGED <<baseline_meds, reference_meds, mode, normalized_baseline,
                   normalized_reference, entries, validation, last_call>>
    /\ UNCHANGED <<patient_context, safety_issues, returned>>
    /\ UNCHANGED <<requests, ledgers>>

\* Step 5: ledger = self._build_ledger(...)
Step5_BuildLedger ==
    /\ pc = "build"
    /\ LET ledger == _build_ledger(normalized_baseline, normalized_reference, llm_output)
       IN  /\ entries' = ledger.entries
           /\ raised' = ledger.raised
           /\ pc' = IF ledger.raised = "None" THEN "validate" ELSE "raised"
    /\ last_call' = [op |-> "_build_ledger", status |-> "None"]
    /\ UNCHANGED <<baseline_meds, reference_meds, mode, normalized_baseline,
                   normalized_reference, llm_output, validation>>
    /\ UNCHANGED <<patient_context, safety_issues, returned>>
    /\ UNCHANGED <<requests, ledgers>>

\* Step 6: validation = ledger.validate_completeness(baseline + reference)
Step6_Validate ==
    /\ pc = "validate"
    /\ pc' = "compile"
    /\ validation' = validate_completeness(entries,
                         normalized_baseline \o normalized_reference)
    /\ last_call' = [op |-> "validate_completeness", status |-> "None"]
    /\ UNCHANGED <<baseline_meds, reference_meds, mode, normalized_baseline,
                   normalized_reference, llm_output, entries, raised>>
    /\ UNCHANGED <<patient_context, safety_issues, returned>>
    /\ UNCHANGED <<requests, ledgers>>

\* Step 7: the result dict is compiled and returned
Step7_Return ==
    /\ pc = "compile"
    /\ pc' = "done"
    /\ UNCHANGED <<baseline_meds, reference_meds, mode, normalized_baseline,
                   normalized_reference, llm_output, entries, validation,
                   raised, last_call>>
    /\ UNCHANGED <<patient_context, safety_issues, returned>>
    /\ UNCHANGED <<requests, ledgers>>

\* the caller is done with the result (or the exception): the locals of the
\* call are gone and the reconciler waits for the next call
Finish ==
    /\ pc \in {"done", "raised"}
    /\ pc' = "idle"
    /\ baseline_meds' = <<>>
    /\ reference_meds' = <<>>
    /\ mode' = "None"
    /\ normalized_baseline' = <<>>
    /\ normalized_reference' = <<>>
    /\ llm_output' = "None"
    /\ entries' = <<>>
    /\ validation' = NoResult
    /\ raised' = "None"
    /\ last_call' = NoCall
    /\ patient_context' = NoneValue
    /\ safety_issues' = <<>>
    /\ UNCHANGED returned
    /\ UNCHANGED <<requests, ledgers>>

\* a caller passes any two lists of catalog strings and any mode
Call ==
    /\ pc = "idle"
    /\ \E b \in ListsUpTo(Catalog, MaxMeds) :
           \E r \in ListsUpTo(Catalog, MaxMeds - Len(b)) :
               \E md \in MODES :
                   \E context \in CONTEXTS(md) : Reconcile(b, r, md, context)

Next ==
    \/ Call
    \/ Step1_Normalize
    \/ Step2_Tag
    \/ Step3_Safety
    \/ Step4_LLM
    \/ Step5_BuildLedger
    \/ Step6_Validate
    \/ Step7_Return
    \/ Finish

Spec == Init /\ [][Next]_vars

-----------------------------------------------------------------------------
(* A ledger used directly: any caller, any sequence of calls *)

\* the most entries a ledger of LedgerSpec takes
MaxEntries == 2

\* Medication objects a caller passes to the ledger
LedgerMeds == {Normalized[ASPIRIN_81], Normalized[LISINOPRIL_10]}

\* statuses a caller passes: the vocabulary and near misses of it
CallStatuses ==
    {"New", "Not Continued", "Changed", CONTINUED_NO_CHANGE, UNMATCHED_VERIFY,
     "Continued-No Change", "new"}

\* ledger = ReconciliationLedger()
InitLedger ==
    /\ pc = "ledger"
    /\ baseline_meds = <<>>
    /\ reference_meds = <<>>
    /\ mode = "None"
    /\ normalized_baseline = <<>>
    /\ normalized_reference = <<>>
    /\ llm_output = "None"
    /\ entries = <<>>
    /\ validation = NoResult
    /\ raised = "None"
    /\ last_call = NoCall
    /\ patient_context = NoneValue
    /\ safety_issues = <<>>
    /\ returned = NoResult
    /\ requests = NoRequests
    /\ ledgers = NoLedgers

\* ledger.add_entry(input_med, status, output_med, notes)
LedgerAddEntry(input_med, status, output_med, notes) ==
    /\ pc = "ledger"
    /\ valid_status(status) => Len(entries) < MaxEntries
    /\ LET ledger == add_entry([entries |-> entries, raised |-> "None"],
                               input_med, status, output_med, notes)
       IN  /\ entries' = ledger.entries
           /\ raised' = ledger.raised
    /\ validation' = NoResult
    /\ returned' = NoResult
    /\ last_call' = [op |-> "add_entry", status |-> status]
    /\ UNCHANGED <<pc, baseline_meds, reference_meds, mode, normalized_baseline,
                   normalized_reference, llm_output>>
    /\ UNCHANGED <<patient_context, safety_issues>>
    /\ UNCHANGED <<requests, ledgers>>

\* ledger.validate_completeness(input_medications)
LedgerValidate(input_medications) ==
    /\ pc = "ledger"
    /\ validation' = validate_completeness(entries, input_medications)
    /\ raised' = "None"
    /\ returned' = NoResult
    /\ last_call' = [op |-> "validate_completeness", status |-> "None",
                     input_medications |-> input_medications]
    /\ UNCHANGED <<pc, baseline_meds, reference_meds, mode, normalized_baseline,
                   normalized_reference, llm_output, entries>>
    /\ UNCHANGED <<patient_context, safety_issues>>
    /\ UNCHANGED <<requests, ledgers>>

\* a method of the ledger that only reads it: op is its name, value what it
\* returns
LedgerRead(op, value) ==
    /\ pc = "ledger"
    /\ returned' = value
    /\ raised' = "None"
    /\ last_call' = [op |-> op, status |-> "None"]
    /\ UNCHANGED <<pc, baseline_meds, reference_meds, mode, normalized_baseline,
                   normalized_reference, llm_output, entries, validation>>
    /\ UNCHANGED <<patient_context, safety_issues>>
    /\ UNCHANGED <<requests, ledgers>>

\* ledger.get_summary(), ledger.format_as_table(), ...
CallRead ==
    \/ LedgerRead("get_summary", get_summary(entries))
    \/ LedgerRead("format_as_table", format_as_table(entries))
    \/ LedgerRead("format_summary_section", format_summary_section(entries))
    \/ LedgerRead("get_issues_for_review", get_issues_for_review(entries))
    \/ LedgerRead("format_issues_section", format_issues_section(entries))

\* add_entry as the first loop of the builder calls it with any status, and
\* as the second loop calls it (no output, a note) with the statuses of
\* medications that have no counterpart
CallAddEntry ==
    \E input_med \in LedgerMeds, status \in CallStatuses :
        \/ LedgerAddEntry(input_med, status, input_med.raw_input, "")
        \/ /\ status \in {"Not Continued", UNMATCHED_VERIFY}
           /\ LedgerAddEntry(input_med, status, <<>>,
                             "Not continued from previous list")

\* the longest list validate_completeness is called on in LedgerSpec
MaxInputs == 2

CallValidate ==
    \E input_medications \in ListsUpTo(LedgerMeds, MaxInputs) :
        LedgerValidate(input_medications)

NextLedger ==
    \/ CallAddEntry
    \/ CallValidate
    \/ CallRead

LedgerSpec == InitLedger /\ [][NextLedger]_vars

-----------------------------------------------------------------------------
(* The normalizer used directly: normalize and check_equivalence on inputs
   drawn from bounded sets *)

\* the characters of the generated inputs of normalize: a lower-case and an
\* upper-case letter, two kinds of whitespace, a digit and a hyphen
Alphabet == {"a", "B", " ", "\t", "5", "-"}

\* the longest generated input of normalize
MaxLen == 4

\* medication strings with a generic name of two words, with the half-dose
\* notation before each unit and before a decimal number, and with the
\* frequency written as a phrase and as its synonym
\* "Metoprolol tartrate 25mg PO BID"
METOPROLOL_TARTRATE ==
    <<"M", "e", "t", "o", "p", "r", "o", "l", "o", "l", " ", "t", "a", "r",
      "t", "r", "a", "t", "e", " ", "2", "5", "m", "g", " ", "P", "O", " ",
      "B", "I", "D">>

\* "Lisinopril (half sign) 10mg PO daily"
HALF_10MG ==
    <<"L", "i", "s", "i", "n", "o", "p", "r", "i", "l", " ", "\\u00bd",
      " ", "1", "0", "m", "g", " ", "P", "O", " ", "d", "a", "i", "l", "y">>

\* "Levothyroxine (half sign) 10mcg PO daily"
HALF_10MCG ==
    <<"L", "e", "v", "o", "t", "h", "y", "r", "o", "x", "i", "n", "e", " ",
      "\\u00bd", " ", "1", "0", "m", "c", "g", " ", "P", "O", " ", "d",
      "a", "i", "l", "y">>

\* "Lactulose (half sign) 10ml PO daily"
HALF_10ML ==
    <<"L", "a", "c", "t", "u", "l", "o", "s", "e", " ", "\\u00bd", " ",
      "1", "0", "m", "l", " ", "P", "O", " ", "d", "a", "i", "l", "y">>

\* "Warfarin (half sign) 2.5mg PO daily"
HALF_DECIMAL_MG ==
    <<"W", "a", "r", "f", "a", "r", "i", "n", " ", "\\u00bd", " ", "2",
      ".", "5", "m", "g", " ", "P", "O", " ", "d", "a", "i", "l", "y">>

\* "Metformin 500mg PO twice daily"
METFORMIN_TWICE_DAILY ==
    <<"M", "e", "t", "f", "o", "r", "m", "i", "n", " ", "5", "0", "0", "m",
      "g", " ", "P", "O", " ", "t", "w", "i", "c", "e", " ", "d", "a", "i",
      "l", "y">>

\* "Metformin 500mg PO three times daily"
METFORMIN_THREE_TIMES_DAILY ==
    <<"M", "e", "t", "f", "o", "r", "m", "i", "n", " ", "5", "0", "0", "m",
      "g", " ", "P", "O", " ", "t", "h", "r", "e", "e", " ", "t", "i", "m",
      "e", "s", " ", "d", "a", "i", "l", "y">>

\* "Metformin 500mg PO TID"
METFORMIN_TID ==
    <<"M", "e", "t", "f", "o", "r", "m", "i", "n", " ", "5", "0", "0", "m",
      "g", " ", "P", "O", " ", "T", "I", "D">>

NormalizerCatalog ==
    {METOPROLOL_TARTRATE, HALF_10MG, HALF_10MCG, HALF_10ML, HALF_DECIMAL_MG,
     METFORMIN_TWICE_DAILY, METFORMIN_THREE_TIMES_DAILY, METFORMIN_TID}

\* the strings normalize is called on
NormalizeInputs ==
    ListsUpTo(Alphabet, MaxLen) \cup Catalog \cup NormalizerCatalog

\* the fields check_equivalence reads, and values of them
EquivGenerics == {<<"m", "e", "t", "f", "o", "r", "m", "i", "n">>,
                  <<"l", "i", "s", "i", "n", "o", "p", "r", "i", "l">>}

EquivRoutes == {None, <<"o", "r", "a", "l">>, <<"i", "v">>}

EquivDoses == {None, <<"5", "0", "0", "m", "g">>, <<"2", "5", "0", ".", "0", "m", "g">>}

\* a Medication object with the given generic_name, route and normalized_dose
BaseMedication(generic_name, route, normalized_dose) ==
    [raw_input |-> generic_name,
     name |-> generic_name,
     generic_name |-> generic_name,
     strength |-> normalized_dose,
     form |-> None,
     route |-> route,
     frequency |-> None,
     normalized_dose |-> normalized_dose,
     status |-> "None"]

\* the same object with one of the other fields set to another value
Variants(med) ==
    {med,
     [med EXCEPT !.frequency = <<"d", "a", "i", "l", "y">>],
     [med EXCEPT !.form = <<"t", "a", "b", "l", "e", "t">>],
     [med EXCEPT !.strength = <<"\\u00bd", " ", "5", "m", "g">>],
     [med EXCEPT !.name = <<"g", "l", "u", "c", "o", "p", "h", "a", "g", "e">>],
     [med EXCEPT !.raw_input = <<"x">>],
     [med EXCEPT !.status = "Current (Now)"]}

\* the Medication objects check_equivalence is called on
EquivMeds ==
    UNION {Variants(BaseMedication(g, r, d)) :
              g \in EquivGenerics, r \in EquivRoutes, d \in EquivDoses}

\* normalizer = MedicationNormalizer()
InitNormalizer ==
    /\ pc = "normalizer"
    /\ baseline_meds = <<>>
    /\ reference_meds = <<>>
    /\ mode = "None"
    /\ normalized_baseline = <<>>
    /\ normalized_reference = <<>>
    /\ llm_output = "None"
    /\ entries = <<>>
    /\ validation = NoResult
    /\ raised = "None"
    /\ last_call = NoCall
    /\ patient_context = NoneValue
    /\ safety_issues = <<>>
    /\ returned = NoResult
    /\ requests = NoRequests
    /\ ledgers = NoLedgers

\* a method of a component is called directly and returns value
DirectCall(at, op, args, value) ==
    /\ pc = at
    /\ pc' = "returned"
    /\ last_call' = [op |-> op, status |-> "None", args |-> args, at |-> at]
    /\ returned' = value
    /\ UNCHANGED <<baseline_meds, reference_meds, mode, patient_context,
                   normalized_baseline, normalized_reference, safety_issues,
                   llm_output, entries, validation, raised>>
    /\ UNCHANGED <<requests, ledgers>>

\* the caller has taken what the method returned
DirectReturn ==
    /\ pc = "returned"
    /\ pc' = last_call.at
    /\ last_call' = NoCall
    /\ returned' = NoResult
    /\ UNCHANGED <<baseline_meds, reference_meds, mode, patient_context,
                   normalized_baseline, normalized_reference, safety_issues,
                   llm_output, entries, validation, raised>>
    /\ UNCHANGED <<requests, ledgers>>

\* normalizer.normalize(raw)
CallNormalize ==
    /\ pc = "normalizer"
    /\ \E raw \in NormalizeInputs :
           DirectCall("normalizer", "normalize", <<raw>>, normalize(raw))

\* normalizer.check_equivalence(med1, med2)
CallCheckEquivalence ==
    /\ pc = "normalizer"
    /\ \E med1 \in EquivMeds, med2 \in EquivMeds :
           DirectCall("normalizer", "check_equivalence", <<med1, med2>>,
                      check_equivalence(med1, med2))

NextNormalizer ==
    \/ CallNormalize
    \/ CallCheckEquivalence
    \/ DirectReturn

NormalizerSpec == InitNormalizer /\ [][NextNormalizer]_vars

-----------------------------------------------------------------------------
(* The safety validator used directly: validate_all on lists of normalized
   medications and lab values *)

\* the longest list validate_all is called on
MaxSafetyMeds == 3

\* the labs argument: absent, an empty dict, a dict without an egfr, and an
\* egfr below, just below, at and above the configured threshold of 30
LABS ==
    {NoneValue, Some({}), Some({<<"creatinine", 2>>}),
     Some({<<"egfr", 25>>}), Some({<<"egfr", 29>>}), Some({<<"egfr", 30>>}),
     Some({<<"egfr", 31>>, <<"creatinine", 2>>})}

\* validator = SafetyValidator()
InitSafety ==
    /\ pc = "safety_validator"
    /\ baseline_meds = <<>>
    /\ reference_meds = <<>>
    /\ mode = "None"
    /\ normalized_baseline = <<>>
    /\ normalized_reference = <<>>
    /\ llm_output = "None"
    /\ entries = <<>>
    /\ validation = NoResult
    /\ raised = "None"
    /\ last_call = NoCall
    /\ patient_context = NoneValue
    /\ safety_issues = <<>>
    /\ returned = NoResult
    /\ requests = NoRequests
    /\ ledgers = NoLedgers

\* validator.validate_all(medications, labs)
CallValidateAll ==
    /\ pc = "safety_validator"
    /\ \E raws \in ListsUpTo(SafetyCatalog, MaxSafetyMeds), labs \in LABS :
           DirectCall("safety_validator", "validate_all",
                      <<normalize_batch(raws), labs>>,
                      validate_all(normalize_batch(raws), labs))

NextSafety ==
    \/ CallValidateAll
    \/ DirectReturn

SafetySpec == InitSafety /\ [][NextSafety]_vars

-----------------------------------------------------------------------------
(* Two reconcile calls at the same time: main.py creates one
   MedicationReconciler when the module is loaded and every caller uses it,
   the request handler in the thread of each request and any other thread.
   A thread runs one statement of reconcile or one iteration of a loop of
   _build_ledger at a time. *)

\* the medication strings of the concurrent requests
RequestCatalog == {METFORMIN_BID, ASPIRIN_81}

\* the most medications in the two lists of one concurrent request together
MaxRequestMeds == 1

\* the modes of the concurrent requests: one the reconciler knows, which
\* comes with the labs of the patient, and one it rejects
REQUEST_MODES == {"comprehensive", "detailed"}

\* one ledger object kept by the reconciler and used by every call
new_ledger_shared(heap) == SetMin(LEDGER_IDS)

\* ledger = ReconciliationLedger(): the identity of the new object, one no
\* live ledger has
new_ledger(heap) == SetMin({id \in LEDGER_IDS : heap[id] = NoLedger})

\* the body of the first loop of _build_ledger run on the locals of a call
\* with the status taken from the text of the model engine
baseline_entry_from_llm(locals, ledger) ==
    LET med == locals.normalized_baseline[locals.med]
    IN  add_entry(ledger, med,
                  IF locals.llm_output = "reconciliation text B"
                  THEN UNMATCHED_VERIFY
                  ELSE baseline_status(med, locals.reference_generics),
                  med.raw_input, "")

\* the body of the first loop of _build_ledger run on the locals of a call
baseline_entry(locals, ledger) ==
    add_baseline_entry(ledger, locals.normalized_baseline[locals.med],
                       locals.reference_generics)

\* the body of the second loop of _build_ledger run on the locals of a call
reference_entry(locals, ledger) ==
    LET med == locals.normalized_reference[locals.med]
    IN  IF not_in_baseline(med, locals.baseline_generics)
        THEN add_reference_entry(ledger, med)
        ELSE ledger

\* thread t enters reconcile with its arguments
RequestReconcile(t, b, r, md, context) ==
    /\ requests[t].pc = "idle"
    /\ requests' = [requests EXCEPT ![t] =
                       [@ EXCEPT !.pc = "normalize",
                                 !.baseline_meds = b,
                                 !.reference_meds = r,
                                 !.mode = md,
                                 !.patient_context = context]]
    /\ UNCHANGED ledgers

\* Step 1 in thread t
RequestStep1(t) ==
    /\ requests[t].pc = "normalize"
    /\ requests' = [requests EXCEPT ![t] =
                       [@ EXCEPT !.pc = "tag",
                                 !.normalized_baseline =
                                     normalize_batch(requests[t].baseline_meds),
                                 !.normalized_reference =
                                     normalize_batch(requests[t].reference_meds)]]
    /\ UNCHANGED ledgers

\* Step 2 in thread t
RequestStep2(t) ==
    /\ requests[t].pc = "tag"
    /\ requests' = [requests EXCEPT ![t] =
                       [@ EXCEPT !.pc = "safety",
                                 !.normalized_baseline =
                                     tag(requests[t].normalized_baseline,
                                         BASELINE_LABEL),
                                 !.normalized_reference =
                                     tag(requests[t].normalized_reference,
                                         REFERENCE_LABEL)]]
    /\ UNCHANGED ledgers

\* Step 3 in thread t
RequestStep3(t) ==
    /\ requests[t].pc = "safety"
    /\ LET all_meds == requests[t].normalized_baseline
                           \o requests[t].normalized_reference
           labs == IF Truthy(requests[t].patient_context)
                   THEN Get(requests[t].patient_context[1], "labs")
                   ELSE NoneValue
       IN  requests' = [requests EXCEPT ![t] =
                           [@ EXCEPT !.pc = "llm",
                                     !.safety_issues =
                                         validate_all(all_meds, labs)]]
    /\ UNCHANGED ledgers

\* Step 4 in thread t
RequestStep4(t) ==
    /\ requests[t].pc = "llm"
    /\ \/ /\ requests[t].mode \in {"simple", "comprehensive"}
          /\ \E text \in LLM_OUTPUTS :
                 requests' = [requests EXCEPT ![t] =
                                 [@ EXCEPT !.pc = "build",
                                           !.llm_output = text]]
       \/ /\ requests[t].mode \in {"simple", "comprehensive"}
          /\ requests' = [requests EXCEPT ![t] =
                             [@ EXCEPT !.pc = "raised",
                                       !.raised = "RuntimeError"]]
       \/ /\ requests[t].mode \notin {"simple", "comprehensive"}
          /\ requests' = [requests EXCEPT ![t] =
                             [@ EXCEPT !.pc = "raised",
                                       !.raised = "ValueError"]]
    /\ UNCHANGED ledgers

\* Step 5, the head of _build_ledger in thread t: the new ledger and the two
\* dicts
RequestNewLedger(t) ==
    /\ requests[t].pc = "build"
    /\ LET id == new_ledger(ledgers)
       IN  /\ ledgers' = [ledgers EXCEPT ![id] = NewLedger]
           /\ requests' = [requests EXCEPT ![t] =
                  [@ EXCEPT !.pc = "baseline loop",
                            !.ledger = id,
                            !.baseline_generics =
                                generics(requests[t].normalized_baseline),
                            !.reference_generics =
                                generics(requests[t].normalized_reference),
                            !.med = 1]]

\* one iteration of the first loop of _build_ledger in thread t, or its end
RequestBaselineEntry(t) ==
    /\ requests[t].pc = "baseline loop"
    /\ IF requests[t].med <= Len(requests[t].normalized_baseline)
       THEN LET ledger == baseline_entry(requests[t],
                                         ledgers[requests[t].ledger])
            IN  /\ ledgers' = [ledgers EXCEPT ![requests[t].ledger] = ledger]
                /\ requests' = [requests EXCEPT ![t] =
                       [@ EXCEPT !.med = @ + 1,
                                 !.raised = ledger.raised,
                                 !.pc = IF ledger.raised = "None"
                                        THEN "baseline loop"
                                        ELSE "raised"]]
       ELSE /\ requests' = [requests EXCEPT ![t] =
                               [@ EXCEPT !.pc = "reference loop", !.med = 1]]
            /\ UNCHANGED ledgers

\* one iteration of the second loop of _build_ledger in thread t, or its end
\* and the return of the ledger
RequestReferenceEntry(t) ==
    /\ requests[t].pc = "reference loop"
    /\ IF requests[t].med <= Len(requests[t].normalized_reference)
       THEN LET ledger == reference_entry(requests[t],
                                          ledgers[requests[t].ledger])
            IN  /\ ledgers' = [ledgers EXCEPT ![requests[t].ledger] = ledger]
                /\ requests' = [requests EXCEPT ![t] =
                       [@ EXCEPT !.med = @ + 1,
                                 !.raised = ledger.raised,
                                 !.pc = IF ledger.raised = "None"
                                        THEN "reference loop"
                                        ELSE "raised"]]
       ELSE /\ requests' = [requests EXCEPT ![t] =
                               [@ EXCEPT !.pc = "validate", !.med = 0]]
            /\ UNCHANGED ledgers

\* Step 6 in thread t
RequestStep6(t) ==
    /\ requests[t].pc = "validate"
    /\ requests' = [requests EXCEPT ![t] =
           [@ EXCEPT !.pc = "compile",
                     !.validation =
                         validate_completeness(
                             ledgers[requests[t].ledger].entries,
                             requests[t].normalized_baseline
                                 \o requests[t].normalized_reference)]]
    /\ UNCHANGED ledgers

\* Step 7 in thread t
RequestStep7(t) ==
    /\ requests[t].pc = "compile"
    /\ requests' = [requests EXCEPT ![t] = [@ EXCEPT !.pc = "done"]]
    /\ UNCHANGED ledgers

\* the response of thread t is sent: the locals and the ledger of its call
\* are gone
RequestFinish(t) ==
    /\ requests[t].pc \in {"done", "raised"}
    /\ requests' = [requests EXCEPT ![t] = IdleRequest]
    /\ ledgers' = IF requests[t].ledger = 0 THEN ledgers
                  ELSE [ledgers EXCEPT ![requests[t].ledger] = NoLedger]

\* the reconciler and its normalizer, model engine and safety validator are
\* created once; no request is being served
InitConcurrent ==
    /\ pc = "concurrent"
    /\ baseline_meds = <<>>
    /\ reference_meds = <<>>
    /\ mode = "None"
    /\ normalized_baseline = <<>>
    /\ normalized_reference = <<>>
    /\ llm_output = "None"
    /\ entries = <<>>
    /\ validation = NoResult
    /\ raised = "None"
    /\ last_call = NoCall
    /\ patient_context = NoneValue
    /\ safety_issues = <<>>
    /\ returned = NoResult
    /\ requests = NoRequests
    /\ ledgers = NoLedgers

\* what the threads do not touch
Shared ==
    <<pc, baseline_meds, reference_meds, mode, patient_context,
      normalized_baseline, normalized_reference, safety_issues, llm_output,
      entries, validation, raised, last_call, returned>>

\* a request arrives with any two lists and any mode
RequestCall ==
    /\ pc = "concurrent"
    /\ \E t \in REQUESTS :
           /\ requests[t].pc = "idle"
           /\ \E b \in ListsUpTo(RequestCatalog, MaxRequestMeds) :
                  \E r \in ListsUpTo(RequestCatalog, MaxRequestMeds - Len(b)) :
                      \E md \in REQUEST_MODES :
                          \E context \in CONTEXTS(md) :
                              RequestReconcile(t, b, r, md, context)
    /\ UNCHANGED Shared

\* a thread runs its next statement
RequestStep ==
    /\ pc = "concurrent"
    /\ \E t \in REQUESTS :
           \/ RequestStep1(t)
           \/ RequestStep2(t)
           \/ RequestStep3(t)
           \/ RequestStep4(t)
           \/ RequestNewLedger(t)
           \/ RequestBaselineEntry(t)
           \/ RequestReferenceEntry(t)
           \/ RequestStep6(t)
           \/ RequestStep7(t)
           \/ RequestFinish(t)
    /\ UNCHANGED Shared

NextConcurrent ==
    \/ RequestCall
    \/ RequestStep

ConcurrentSpec == InitConcurrent /\ [][NextConcurrent]_vars

-----------------------------------------------------------------------------
(* Properties of the ledger builder, checked under Spec *)

\* _build_ledger has returned the ledger of the current call
Built == pc \in {"validate", "compile", "done"}

\* validate_completeness has returned in the current call
Validated == pc \in {"compile", "done"}

\* the positions of the reference list whose generic_name no baseline
\* medication has
Unmatched ==
    {j \in DOMAIN normalized_reference :
        \A i \in DOMAIN normalized_baseline :
            normalized_baseline[i].generic_name # normalized_reference[j].generic_name}

\* the reference medications of Unmatched, in reference order
UnmatchedReference ==
    SelectSeq(normalized_reference,
              LAMBDA r : \A i \in DOMAIN normalized_baseline :
                             normalized_baseline[i].generic_name # r.generic_name)

\* the positions of the reference list that have the generic_name of med
MatchesOf(med) ==
    {j \in DOMAIN normalized_reference :
        normalized_reference[j].generic_name = med.generic_name}

\* how many entries have this raw input as their input_medication
EntriesFor(raw_input) ==
    Cardinality({k \in DOMAIN entries : entries[k].input_medication = raw_input})

\* no medication of the call has an empty generic_name (an unparseable input)
NamesParsed ==
    \A i \in DOMAIN (normalized_baseline \o normalized_reference) :
        (normalized_baseline \o normalized_reference)[i].generic_name # <<>>

\* the medications of the call have pairwise different raw inputs
InputsDistinct ==
    \A i, j \in DOMAIN (normalized_baseline \o normalized_reference) :
        i # j => (normalized_baseline \o normalized_reference)[i].raw_input
                     # (normalized_baseline \o normalized_reference)[j].raw_input

\* C1: after _build_ledger, every medication of the baseline list and of the
\* reference list is the input_medication of exactly one ledger entry.  Stated
\* for lists of parsed, pairwise different inputs, where "the entry of a
\* medication" is unambiguous.
C1_EveryInputExactlyOnce ==
    (Built /\ NamesParsed /\ InputsDistinct) =>
        /\ \A i \in DOMAIN normalized_baseline :
               EntriesFor(normalized_baseline[i].raw_input) = 1
        /\ \A j \in DOMAIN normalized_reference :
               EntriesFor(normalized_reference[j].raw_input) = 1

\* C2: validate_completeness on baseline + reference, the lists the ledger was
\* built from, returns is_complete = true.  Stated for lists of parsed inputs.
C2_CompleteOnOwnInputs ==
    (Validated /\ NamesParsed) => validation.is_complete

\* C3: the built ledger has exactly m + k entries, m the size of the baseline
\* list and k the number of reference medications whose generic_name no
\* baseline medication has.
C3_EntryCount ==
    Built => Len(entries) = Len(normalized_baseline) + Cardinality(Unmatched)

\* C3 witness: a ledger built from a baseline medication, a reference
\* medication that matches it and one that does not.
C3_Witness ==
    /\ Built
    /\ normalized_baseline # <<>>
    /\ Unmatched # {}
    /\ Unmatched # DOMAIN normalized_reference

\* the status C4 gives the baseline medication med
C4_Status(med) ==
    IF MatchesOf(med) = {} THEN "New"
    ELSE IF check_equivalence(med, normalized_reference[SetMax(MatchesOf(med))])
         THEN CONTINUED_NO_CHANGE
         ELSE "Changed"

\* C4: the entry of a baseline medication m has status New iff no reference
\* medication has m.generic_name, else Continued-No Change iff
\* check_equivalence(m, r) for the matched (last such) reference medication r
\* and Changed otherwise; its output_medication is m.raw_input and its notes
\* are empty.  Scenario 1 (metformin 500mg po bid on both sides) gives one
\* entry, Continued-No Change; scenario 2 (lisinopril 20mg against 10mg) gives
\* Changed.
C4_BaselineStatus ==
    Built =>
        /\ Len(entries) >= Len(normalized_baseline)
        /\ \A i \in DOMAIN normalized_baseline :
               entries[i] = LedgerEntry(normalized_baseline[i].raw_input,
                                        C4_Status(normalized_baseline[i]),
                                        normalized_baseline[i].raw_input, "")
        /\ (baseline_meds = <<METFORMIN_BID>> /\ reference_meds = <<METFORMIN_BID>>)
               => (Len(entries) = 1
                   /\ entries[1].reconciliation_status = CONTINUED_NO_CHANGE)
        /\ (baseline_meds = <<LISINOPRIL_20>> /\ reference_meds = <<LISINOPRIL_10>>)
               => entries[1].reconciliation_status = "Changed"

\* C4 witness: one ledger with a baseline entry Continued-No Change, another
\* Changed, built against a reference list that has the generic name twice.
C4_Witness ==
    /\ Built
    /\ \E i, j \in DOMAIN normalized_baseline :
           /\ entries[i].reconciliation_status = CONTINUED_NO_CHANGE
           /\ entries[j].reconciliation_status = "Changed"

\* C5: the entries after the baseline entries are those of the reference
\* medications whose generic_name no baseline medication has, one each, with
\* status Not Continued, empty output_medication and the notes "Not continued
\* from previous list"; an empty baseline and one reference medication give
\* exactly one entry, Not Continued.
C5_ReferenceEntries ==
    Built =>
        /\ Len(entries) >= Len(normalized_baseline)
        /\ SubSeq(entries, Len(normalized_baseline) + 1, Len(entries))
               = [k \in 1..Len(UnmatchedReference) |->
                     [input_medication |-> UnmatchedReference[k].raw_input,
                      reconciliation_status |-> "Not Continued",
                      output_medication |-> <<>>,
                      notes |-> "Not continued from previous list"]]
        /\ (baseline_meds = <<>> /\ reference_meds = <<ASPIRIN_81>>)
               => (Len(entries) = 1
                   /\ entries[1].reconciliation_status = "Not Continued")

\* C5 witness: a ledger with a Not Continued entry, built from a reference list
\* of which another medication was matched in baseline and got none.
C5_Witness ==
    /\ Built
    /\ normalized_baseline # <<>>
    /\ Unmatched # {}
    /\ Unmatched # DOMAIN normalized_reference
    /\ entries[Len(entries)].reconciliation_status = "Not Continued"

\* C6: the input_medication values of the ledger, in order, are the raw inputs
\* of the baseline list in baseline order, then those of the reference
\* medications absent from baseline in reference order.
C6_EntryOrder ==
    Built =>
        [k \in DOMAIN entries |-> entries[k].input_medication]
            = [i \in DOMAIN normalized_baseline |-> normalized_baseline[i].raw_input]
              \o [k \in 1..Len(UnmatchedReference) |-> UnmatchedReference[k].raw_input]

\* C6 witness: a ledger of two different baseline entries followed by a
\* reference entry, or of one baseline entry followed by two.
C6_Witness ==
    /\ Built
    /\ Len(entries) > 2
    /\ normalized_baseline # <<>>
    /\ Unmatched # {}
    /\ \A k, l \in DOMAIN entries :
           k # l => entries[k].input_medication # entries[l].input_medication

\* C7: a baseline medication whose matched reference medication has the same
\* generic_name, route and normalized_dose and another frequency has status
\* Changed.
C7_FrequencyChangeReported ==
    Built =>
        \A i \in DOMAIN normalized_baseline :
            LET m == normalized_baseline[i]
                r == normalized_reference[SetMax(MatchesOf(m))]
            IN  (/\ MatchesOf(m) # {}
                 /\ m.route = r.route
                 /\ m.normalized_dose = r.normalized_dose
                 /\ m.frequency # r.frequency)
                    => entries[i].reconciliation_status = "Changed"

\* C8: no match on an empty key: a baseline medication with empty generic_name
\* is never Continued-No Change or Changed, and a reference medication with
\* empty generic_name always has its own Not Continued entry.
C8_NoMatchOnEmptyKey ==
    Built =>
        /\ \A i \in DOMAIN normalized_baseline :
               normalized_baseline[i].generic_name = <<>>
                   => entries[i].reconciliation_status
                          \notin {CONTINUED_NO_CHANGE, "Changed"}
        /\ \A j \in DOMAIN normalized_reference :
               normalized_reference[j].generic_name = <<>>
                   => \E k \in (Len(normalized_baseline) + 1)..Len(entries) :
                          entries[k].input_medication
                              = normalized_reference[j].raw_input

-----------------------------------------------------------------------------
(* Properties of the ledger, checked under LedgerSpec *)

\* the five configured values (config.py LEDGER_STATUSES)
StatusVocabulary ==
    {"New", "Not Continued", "Changed", "Continued\\u2014No Change",
     "Unmatched\\u2014Verify"}

\* C9: after any sequence of add_entry calls, accepted or rejected, every
\* entry's reconciliation_status is one of the five configured values.
C9_StatusesInVocabulary ==
    \A k \in DOMAIN entries : entries[k].reconciliation_status \in StatusVocabulary

\* C9 witness: a ledger that holds entries and has just rejected a call.
C9_Witness ==
    /\ pc = "ledger"
    /\ Len(entries) = MaxEntries
    /\ last_call.op = "add_entry"
    /\ last_call.status \notin StatusVocabulary

\* C10: an add_entry call with a status outside the vocabulary raises
\* ValueError and leaves entries as they were before the call.
C10_RejectedCallChangesNothing ==
    [][(last_call'.op = "add_entry" /\ last_call'.status \notin StatusVocabulary)
          => (raised' = "ValueError" /\ entries' = entries)]_vars

\* C10 witness: a non-empty ledger whose last call was a rejected add_entry.
C10_Witness ==
    /\ pc = "ledger"
    /\ entries # <<>>
    /\ last_call.op = "add_entry"
    /\ last_call.status \notin StatusVocabulary
    /\ raised = "ValueError"

\* the methods of the ledger that only read it
ReadOperations ==
    {"validate_completeness", "get_summary", "format_as_table",
     "format_summary_section", "get_issues_for_review", "format_issues_section"}

\* C11: the ledger is append-only.  A successful add_entry lengthens entries
\* by exactly one, the new entry (with the status of the call) is last and
\* every entry already present keeps its position and its four fields; a
\* rejected add_entry, validate_completeness, get_summary, the format_*
\* methods and get_issues_for_review leave entries as they are.
C11_AppendOnly ==
    [][/\ (last_call'.op = "add_entry" /\ raised' = "None")
              => /\ Len(entries') = Len(entries) + 1
                 /\ SubSeq(entries', 1, Len(entries)) = entries
                 /\ entries'[Len(entries')].reconciliation_status = last_call'.status
       /\ (last_call'.op = "add_entry" /\ raised' # "None") => entries' = entries
       /\ last_call'.op \in ReadOperations => entries' = entries]_vars

\* C11 witness: a ledger of two different entries that has been formatted as
\* a table after the second was added.
C11_Witness ==
    /\ pc = "ledger"
    /\ Len(entries) = 2
    /\ entries[1] # entries[2]
    /\ last_call.op = "format_as_table"
    /\ returned.total = 2

\* C12: once validate_completeness has been called the ledger is frozen: the
\* call that follows it, an add_entry included, leaves entries as they were at
\* the moment of the validate_completeness call.
C12_FrozenAfterValidate ==
    [][last_call.op = "validate_completeness" => entries' = entries]_vars

\* C13: validate_completeness never raises and never repairs the ledger.
\* When the number of inputs differs from the number of entries it returns
\* is_complete = false and missing_medications = the raw_input strings of the
\* inputs that are the input_medication of no entry; when the two counts are
\* equal it returns is_complete = true and missing_count = 0.
C13_ValidateReports ==
    [][last_call'.op = "validate_completeness" =>
          LET inputs == last_call'.input_medications
          IN  /\ raised' = "None"
              /\ entries' = entries
              /\ Len(inputs) # Len(entries) =>
                     /\ validation'.is_complete = FALSE
                     /\ validation'.missing_medications
                            = {inputs[i].raw_input : i \in
                                  {j \in DOMAIN inputs :
                                      \A k \in DOMAIN entries :
                                          entries[k].input_medication
                                              # inputs[j].raw_input}}
              /\ Len(inputs) = Len(entries) =>
                     /\ validation'.is_complete = TRUE
                     /\ validation'.missing_count = 0]_vars

\* C13 witness: an incomplete ledger that has some of the inputs of the call
\* and lacks others.
C13_Witness ==
    /\ pc = "ledger"
    /\ last_call.op = "validate_completeness"
    /\ entries # <<>>
    /\ validation.is_complete = FALSE
    /\ validation.missing_medications # {}
    /\ \E i \in DOMAIN last_call.input_medications :
           last_call.input_medications[i].raw_input
               \notin validation.missing_medications

\* the statuses _build_ledger assigns
BuilderStatuses == {"New", "Changed", CONTINUED_NO_CHANGE, "Not Continued"}

\* C24: the deterministic builder never assigns Unmatched-Verify: for all
\* baseline and reference lists every entry of the ledger _build_ledger
\* returns has a status among New, Changed, Continued-No Change and Not
\* Continued, so get_issues_for_review on that ledger is empty.
C24_NoUnmatchedVerify ==
    Built =>
        /\ \A k \in DOMAIN entries :
               entries[k].reconciliation_status \in BuilderStatuses
        /\ get_issues_for_review(entries) = <<>>

\* C24 witness: a ledger with an entry for a baseline medication nothing in
\* the reference list matches and one for a reference medication nothing in
\* the baseline list matches, the two cases a clinician might have to review.
C24_Witness ==
    /\ Built
    /\ raised = "None"
    /\ \E k \in DOMAIN entries : entries[k].reconciliation_status = "New"
    /\ \E k \in DOMAIN entries :
           entries[k].reconciliation_status = "Not Continued"
    /\ get_issues_for_review(entries) = <<>>

\* the reference medication a baseline medication with matches is compared
\* against: the last one of its generic name in reference order
LastMatch(med) == normalized_reference[SetMax(MatchesOf(med))]

\* C27: when a generic name occurs more than once in the reference list,
\* every baseline medication with that generic name is compared by
\* check_equivalence against the last such reference medication; when a
\* generic name occurs more than once in the baseline list, each occurrence
\* still gets its own ledger entry, compared against that same counterpart.
C27_LastWriteWins ==
    Built =>
        /\ Len(entries) >= Len(normalized_baseline)
        /\ \A i \in DOMAIN normalized_baseline :
               LET med == normalized_baseline[i]
               IN  Cardinality(MatchesOf(med)) > 1 =>
                       entries[i].reconciliation_status =
                           IF check_equivalence(med, LastMatch(med))
                           THEN CONTINUED_NO_CHANGE
                           ELSE "Changed"
        /\ \A i, j \in DOMAIN normalized_baseline :
               LET med == normalized_baseline[i]
                   other == normalized_baseline[j]
               IN  (i # j /\ med.generic_name = other.generic_name
                        /\ MatchesOf(med) # {}) =>
                       /\ entries[i].input_medication = med.raw_input
                       /\ entries[j].input_medication = other.raw_input
                       /\ LastMatch(med) = LastMatch(other)
                       /\ entries[i].reconciliation_status = CONTINUED_NO_CHANGE
                              <=> check_equivalence(med, LastMatch(med))
                       /\ entries[j].reconciliation_status = CONTINUED_NO_CHANGE
                              <=> check_equivalence(other, LastMatch(med))

\* C27 witness: a baseline medication equivalent to the first reference
\* medication of its generic name and not to the last one, reported Changed.
C27_Witness ==
    /\ Built
    /\ \E i \in DOMAIN normalized_baseline :
           LET med == normalized_baseline[i]
           IN  /\ Cardinality(MatchesOf(med)) > 1
               /\ check_equivalence(med,
                      normalized_reference[SetMin(MatchesOf(med))])
               /\ ~check_equivalence(med, LastMatch(med))
               /\ entries[i].reconciliation_status = "Changed"

\* C30: whenever validate_completeness returns is_complete = false,
\* missing_count is positive and is the number of elements of
\* missing_medications, for any ledger contents and any input list, also
\* with repeated raw_input strings and with a ledger longer than the list.
C30_MissingCountConsistent ==
    (last_call.op = "validate_completeness"
        /\ validation.is_complete = FALSE) =>
        /\ validation.missing_count > 0
        /\ validation.missing_count
               = Cardinality(validation.missing_medications)

-----------------------------------------------------------------------------
(* Properties of the normalizer, checked under NormalizerSpec *)

\* check_equivalence has just returned
EquivalenceChecked == pc = "returned" /\ last_call.op = "check_equivalence"

\* normalize has just returned
NormalizeDone == pc = "returned" /\ last_call.op = "normalize"

\* C14: check_equivalence(a, b) is true iff a.generic_name = b.generic_name
\* and a.route = b.route (both None counts as equal) and a.normalized_dose =
\* b.normalized_dose; frequency, form, strength, name, raw_input and status of
\* either medication do not change the result.
C14_EquivalenceDefinition ==
    EquivalenceChecked =>
        LET a == last_call.args[1]
            b == last_call.args[2]
        IN  returned = (/\ a.generic_name = b.generic_name
                        /\ a.route = b.route
                        /\ a.normalized_dose = b.normalized_dose)

\* C14 witness: two medications found equivalent that have no route and
\* differ in frequency.
C14_Witness ==
    /\ EquivalenceChecked
    /\ returned = TRUE
    /\ last_call.args[1].route = None
    /\ last_call.args[1].frequency # last_call.args[2].frequency

\* C15: check_equivalence is symmetric: check_equivalence(a, b) =
\* check_equivalence(b, a) for every pair of medications.
C15_EquivalenceSymmetric ==
    EquivalenceChecked =>
        returned = check_equivalence(last_call.args[2], last_call.args[1])

\* C15 witness: two different medications found equivalent, and the same
\* generic name with a route on one side only found not equivalent.
C15_Witness ==
    /\ EquivalenceChecked
    /\ last_call.args[1].generic_name = last_call.args[2].generic_name
    /\ last_call.args[1].normalized_dose = last_call.args[2].normalized_dose
    /\ last_call.args[1].route = None
    /\ last_call.args[2].route # None
    /\ returned = FALSE

\* C20: for every input string whose stripped, lower-cased form (the stored
\* raw_input) is non-empty, normalize returns, without raising, a Medication
\* with a non-empty generic_name.
C20_GenericNameNonEmpty ==
    (NormalizeDone /\ lower(strip(last_call.args[1])) # <<>>) =>
        /\ raised = "None"
        /\ returned.raw_input = lower(strip(last_call.args[1]))
        /\ returned.generic_name # <<>>
        /\ returned.generic_name # <<"IndexError">>

\* C20 witness: an input the name pattern does not match (it starts with a
\* digit), whose name is its first token.
C20_Witness ==
    /\ NormalizeDone
    /\ returned.raw_input # <<>>
    /\ NameMatches(returned.raw_input) = {}
    /\ returned.raw_input[1] \in Digits
    /\ Len(returned.generic_name) < Len(returned.raw_input)

\* C21: normalization is idempotent on generic names: for every input x with
\* m = normalize(x), normalizing m.generic_name again gives a Medication whose
\* generic_name is m.generic_name, also when the generic name has several
\* words.
C21_GenericNameIdempotent ==
    NormalizeDone =>
        normalize(returned.generic_name).generic_name = returned.generic_name

\* the positions of med_string where the half sign stands before a number
\* and one of the units mg, mcg, ml
HalfDoses(med_string) ==
    {p \in 1..Len(med_string) : HalfDoseAt(med_string, p) # <<>>}

\* C28: for an input in which the half sign immediately precedes a number N
\* and a recognised unit (mg, mcg or ml), normalize returns normalized_dose
\* equal to N/2 with the original unit; for a strength without fraction
\* notation normalized_dose equals the strength unchanged.
C28_HalfDose ==
    NormalizeDone =>
        LET med_string == returned.raw_input
            m == HalfDoseAt(med_string, SetMin(HalfDoses(med_string)))
        IN  /\ HalfDoses(med_string) # {} =>
                   returned.normalized_dose =
                       HalfRepr(SubSeq(med_string, m[1], m[2] - 1)) \o m[3]
            /\ (returned.strength # None
                    /\ ~Contains(returned.strength, <<HALF>>)
                    /\ HalfDoses(med_string) = {}) =>
                   returned.normalized_dose = returned.strength

\* med_string contains none of the keys of FREQUENCY_SYNONYMS
NoFrequencySynonym(med_string) ==
    \A i \in DOMAIN FREQUENCY_SYNONYMS :
        ~Contains(med_string, FREQUENCY_SYNONYMS[i][1])

\* C29: an input containing the canonical phrase 'twice daily' (or 'three
\* times daily') and no frequency synonym is given the frequency 'twice
\* daily' (resp. 'three times daily'), the value normalize gives the same
\* input written with 'bid' (resp. 'tid').
C29_CanonicalFrequency ==
    (NormalizeDone /\ NoFrequencySynonym(returned.raw_input)) =>
        /\ Contains(returned.raw_input, FREQUENCIES[2]) =>
               /\ returned.frequency = FREQUENCIES[2]
               /\ returned.frequency = normalize(METFORMIN_BID).frequency
        /\ Contains(returned.raw_input, FREQUENCIES[3]) =>
               /\ returned.frequency = FREQUENCIES[3]
               /\ returned.frequency = normalize(METFORMIN_TID).frequency

-----------------------------------------------------------------------------
(* Properties of the safety validator, checked under SafetySpec and, for the
   checks reconcile runs on baseline followed by reference, under Spec *)

\* validate_all has just returned
ValidateAllDone == pc = "returned" /\ last_call.op = "validate_all"

\* the issues of category duplication, in the order returned
DuplicationIssues(issues) ==
    SelectSeq(issues, LAMBDA issue : issue.category = "duplication")

\* the issues that report a generic name appearing again
ExactIssues(issues) ==
    SelectSeq(issues,
              LAMBDA issue :
                  /\ issue.category = "duplication"
                  /\ issue.description.template
                         = "Duplicate medication: {} appears multiple times")

\* the issues that report several drugs of the therapeutic class
ClassIssues(issues, class_name) ==
    SelectSeq(issues,
              LAMBDA issue :
                  /\ issue.category = "duplication"
                  /\ issue.description.template = "Multiple {} drugs: {}"
                  /\ issue.description.values[1] = class_name)

\* the issues of category renal, in the order returned
RenalIssues(issues) ==
    SelectSeq(issues, LAMBDA issue : issue.category = "renal")

\* the generic names of the list that belong to the class
ClassMembers(medications, drug_list) ==
    {medications[i].generic_name : i \in DOMAIN medications}
        \cap {drug_list[j] : j \in DOMAIN drug_list}

\* C16: duplication monotonicity.  For a list L and a medication whose
\* generic name L already has, validate_all on L extended by that medication
\* returns exactly one more issue of category duplication than validate_all
\* on L.
C16_DuplicationMonotone ==
    ValidateAllDone =>
        LET medications == last_call.args[1]
            labs == last_call.args[2]
            n == Len(medications)
        IN  (/\ n >= 2
             /\ \E j \in 1..(n - 1) :
                    medications[j].generic_name = medications[n].generic_name)
                => Len(DuplicationIssues(returned))
                       = Len(DuplicationIssues(
                                 validate_all(SubSeq(medications, 1, n - 1), labs))) + 1

\* the medications reconcile gives the safety checks
AllMeds == normalized_baseline \o normalized_reference

\* Step 3 of the current reconcile call is done
SafetyChecked == pc \in {"llm", "build", "validate", "compile", "done"}

\* the positions of AllMeds whose generic name an earlier position has
Repeats ==
    {i \in DOMAIN AllMeds :
        \E j \in 1..(i - 1) : AllMeds[j].generic_name = AllMeds[i].generic_name}

\* C17: exact duplication.  Scanning the list in input order, each occurrence
\* of a generic_name after its first gives exactly one moderate duplication
\* issue whose affected_meds is that generic name, so there are as many such
\* issues as the list is long minus its number of distinct generic names;
\* reconcile checks baseline followed by reference as one list, so a drug
\* once in each list gives one such issue.
C17_ExactDuplicates ==
    SafetyChecked =>
        LET exact == ExactIssues(safety_issues)
            repeats == Positions(Len(AllMeds), Repeats)
        IN  /\ Len(exact) = Len(AllMeds)
                   - Cardinality({AllMeds[i].generic_name : i \in DOMAIN AllMeds})
            /\ Len(exact) = Len(repeats)
            /\ \A k \in DOMAIN exact :
                   /\ exact[k].severity = "moderate"
                   /\ exact[k].affected_meds = <<AllMeds[repeats[k]].generic_name>>
            /\ (/\ Len(normalized_baseline) = 1
                 /\ Len(normalized_reference) = 1
                 /\ normalized_baseline[1].generic_name
                        = normalized_reference[1].generic_name)
                    => Len(exact) = 1

\* C17 witness: a baseline drug that comes back in the reference list after
\* another drug: three medications, one exact-duplicate issue.
C17_Witness ==
    /\ SafetyChecked
    /\ Len(normalized_baseline) = 1
    /\ Len(normalized_reference) = 2
    /\ normalized_reference[1].generic_name # normalized_baseline[1].generic_name
    /\ normalized_reference[2].generic_name = normalized_baseline[1].generic_name
    /\ Len(ExactIssues(safety_issues)) = 1

\* C18: therapeutic-class duplication.  For each configured class,
\* validate_all gives exactly one moderate duplication issue iff two or more
\* distinct medications of the list belong to the class, and its
\* affected_meds lists the matched generic names; ibuprofen with naproxen
\* gives exactly one duplication issue naming both, a single member of a
\* class none.
C18_ClassDuplicates ==
    ValidateAllDone =>
        \A c \in DOMAIN THERAPEUTIC_CLASSES :
            LET medications == last_call.args[1]
                members == ClassMembers(medications, THERAPEUTIC_CLASSES[c].drug_list)
                issues == ClassIssues(returned, THERAPEUTIC_CLASSES[c].class_name)
            IN  /\ Len(issues) = IF Cardinality(members) >= 2 THEN 1 ELSE 0
                /\ \A k \in DOMAIN issues :
                       /\ issues[k].severity = "moderate"
                       /\ {issues[k].affected_meds[i] :
                               i \in DOMAIN issues[k].affected_meds} = members

\* the entries of the renal table that apply to the generic name: its own
\* or that of a therapeutic class it belongs to
RenalEntries(generic) ==
    {r \in DOMAIN RENAL_CONTRAINDICATIONS :
        \/ RENAL_CONTRAINDICATIONS[r].key = generic
        \/ \E c \in DOMAIN THERAPEUTIC_CLASSES :
               /\ THERAPEUTIC_CLASSES[c].class_name = RENAL_CONTRAINDICATIONS[r].key
               /\ \E d \in DOMAIN THERAPEUTIC_CLASSES[c].drug_list :
                      THERAPEUTIC_CLASSES[c].drug_list[d] = generic}

\* the positions of the list whose medication is contraindicated at this egfr
Contraindicated(medications, egfr) ==
    {i \in DOMAIN medications :
        \E r \in RenalEntries(medications[i].generic_name) :
            egfr < RENAL_CONTRAINDICATIONS[r].egfr_threshold}

\* labs carries a numeric egfr
HasEgfr(labs) == labs # NoneValue /\ \E p \in labs[1] : p[1] = "egfr"

EgfrOf(labs) == (CHOOSE p \in labs[1] : p[1] = "egfr")[2]

\* C19: renal check.  When labs carries a numeric egfr, validate_all gives a
\* high renal issue for a medication iff egfr is strictly below the threshold
\* of a contraindication entry that is the medication's generic_name or names
\* a therapeutic class that has it (metformin at egfr 25, threshold 30: one
\* renal issue; egfr equal to the threshold: none); when labs is absent or
\* has no egfr there is no renal issue and no error.
C19_RenalCheck ==
    ValidateAllDone =>
        LET medications == last_call.args[1]
            labs == last_call.args[2]
            renal == RenalIssues(returned)
        IN  /\ raised = "None"
            /\ ~HasEgfr(labs) => renal = <<>>
            /\ HasEgfr(labs) =>
                   LET hits == Positions(Len(medications),
                                         Contraindicated(medications, EgfrOf(labs)))
                   IN  /\ Len(renal) = Len(hits)
                       /\ \A k \in DOMAIN renal :
                              /\ renal[k].severity = "high"
                              /\ renal[k].affected_meds
                                     = <<medications[hits[k]].generic_name>>
            /\ (HasEgfr(labs) /\ EgfrOf(labs) = 30) => renal = <<>>
            /\ (/\ HasEgfr(labs)
                 /\ EgfrOf(labs) = 25
                 /\ Len(medications) = 1
                 /\ medications[1].raw_input = lower(METFORMIN_BID))
                    => Len(renal) = 1

\* C19 witness: at egfr 25 a list of metformin, an NSAID and aspirin gets a
\* renal issue for the first two and none for the third.
C19_Witness ==
    /\ ValidateAllDone
    /\ HasEgfr(last_call.args[2])
    /\ EgfrOf(last_call.args[2]) = 25
    /\ Len(last_call.args[1]) = 3
    /\ \E i \in 1..3 : last_call.args[1][i].raw_input = lower(ASPIRIN_81)
    /\ \E i \in 1..3 : last_call.args[1][i].raw_input = lower(METFORMIN_BID)
    /\ Len(RenalIssues(returned)) = 2
    /\ RenalIssues(returned)[1].affected_meds # RenalIssues(returned)[2].affected_meds

\* the issues of category interaction, in the order returned
InteractionIssues(issues) ==
    SelectSeq(issues, LAMBDA issue : issue.category = "interaction")

\* some medication's generic_name contains the drug as a substring
Present(medications, drug) ==
    \E i \in DOMAIN medications :
        \E p \in 1..(Len(medications[i].generic_name) - Len(drug) + 1) :
            SubSeq(medications[i].generic_name, p, p + Len(drug) - 1) = drug

\* the configured pairs with both drugs present
Triggered(medications) ==
    {x \in DOMAIN HIGH_SEVERITY_INTERACTIONS :
        /\ Present(medications, HIGH_SEVERITY_INTERACTIONS[x].drug1)
        /\ Present(medications, HIGH_SEVERITY_INTERACTIONS[x].drug2)}

\* C25: for each configured pair (drug1, drug2, risk), check_interactions
\* emits exactly one high interaction issue iff some medication's
\* generic_name contains drug1 as a substring and some medication's
\* generic_name contains drug2 as a substring, and nothing for the pair when
\* either is absent; the issues appear in the order of the pair table.
C25_Interactions ==
    ValidateAllDone =>
        LET medications == last_call.args[1]
            found == InteractionIssues(returned)
        IN  /\ Len(found) = Cardinality(Triggered(medications))
            /\ \A n \in DOMAIN found :
                   \E x \in Triggered(medications) :
                       /\ Cardinality({y \in Triggered(medications) : y < x})
                              = n - 1
                       /\ found[n].severity = "high"
                       /\ found[n].affected_meds
                              = <<HIGH_SEVERITY_INTERACTIONS[x].drug1,
                                  HIGH_SEVERITY_INTERACTIONS[x].drug2>>
                       /\ found[n].description.values[3]
                              = HIGH_SEVERITY_INTERACTIONS[x].risk

\* C25 witness: two pairs triggered by three medications, one of them
\* present as a part of a longer generic name, reported in table order.
C25_Witness ==
    /\ ValidateAllDone
    /\ Len(InteractionIssues(returned)) = 2
    /\ \E i \in DOMAIN last_call.args[1] :
           /\ Contains(last_call.args[1][i].generic_name,
                       HIGH_SEVERITY_INTERACTIONS[1].drug1)
           /\ last_call.args[1][i].generic_name
                  # HIGH_SEVERITY_INTERACTIONS[1].drug1

\* where an issue stands in the order of the checks: exact duplicates, class
\* duplications, interactions, renal contraindications
Rank(issue) ==
    IF issue.category = "duplication"
    THEN IF issue.description.template
               = "Duplicate medication: {} appears multiple times"
         THEN 1
         ELSE 2
    ELSE IF issue.category = "interaction" THEN 3
    ELSE 4

\* C26: in the list validate_all returns every exact-duplicate issue precedes
\* every class-duplication issue, every duplication issue precedes every
\* interaction issue, and every interaction issue precedes every renal issue.
C26_IssueOrder ==
    ValidateAllDone =>
        \A i, j \in DOMAIN returned :
            i < j => Rank(returned[i]) <= Rank(returned[j])

\* C26 witness: a list with an exact duplicate, an interaction and a renal
\* contraindication reported together.
C26_Witness ==
    /\ ValidateAllDone
    /\ \E i, j, k \in DOMAIN returned :
           /\ Rank(returned[i]) = 1
           /\ Rank(returned[j]) = 3
           /\ Rank(returned[k]) = 4
           /\ returned[k].category = "renal"

-----------------------------------------------------------------------------
(* Properties of concurrent requests, checked under ConcurrentSpec *)

\* request t has its ledger, complete
RequestBuilt(t) == requests[t].pc \in {"validate", "compile", "done"}

\* request t has the result of validate_completeness
RequestValidated(t) == requests[t].pc \in {"compile", "done"}

\* the entries of the ledger of request t
RequestEntries(t) == ledgers[requests[t].ledger].entries

\* the lists Steps 1 and 2 give a call with the arguments of request t when
\* it runs alone
AloneBaseline(t) ==
    tag(normalize_batch(requests[t].baseline_meds), BASELINE_LABEL)

AloneReference(t) ==
    tag(normalize_batch(requests[t].reference_meds), REFERENCE_LABEL)

\* the ledger entries a call with the arguments of request t builds alone
AloneEntries(t) ==
    _build_ledger(AloneBaseline(t), AloneReference(t),
                  requests[t].llm_output).entries

\* the safety issues a call with the arguments of request t finds alone
AloneIssues(t) ==
    validate_all(AloneBaseline(t) \o AloneReference(t),
                 IF Truthy(requests[t].patient_context)
                 THEN Get(requests[t].patient_context[1], "labs")
                 ELSE NoneValue)

\* two requests that have a ledger have different ledger objects
OwnLedgers ==
    \A t, u \in REQUESTS :
        (t # u /\ requests[t].ledger # 0 /\ requests[u].ledger # 0) =>
            requests[t].ledger # requests[u].ledger

\* the ledger, the safety issues and the validation of every request are
\* those of its call run alone; while the ledger is being built its entries
\* are the first ones of that ledger
AsAlone ==
    \A t \in REQUESTS :
        requests[t].ledger # 0 =>
            LET alone == AloneEntries(t)
                built == RequestEntries(t)
            IN  /\ Len(built) <= Len(alone)
                /\ built = SubSeq(alone, 1, Len(built))
                /\ RequestBuilt(t) =>
                       /\ built = alone
                       /\ requests[t].safety_issues = AloneIssues(t)
                /\ RequestValidated(t) =>
                       requests[t].validation
                           = validate_completeness(alone,
                                 AloneBaseline(t) \o AloneReference(t))

\* a step that is not a step of request t leaves the ledger of t as it was
NoForeignAppend ==
    \A t \in REQUESTS :
        (requests[t].ledger # 0 /\ requests'[t] = requests[t]) =>
            ledgers'[requests[t].ledger] = ledgers[requests[t].ledger]

\* C22: run isolation.  When two reconcile runs are interleaved in any order
\* on the shared module-level MedicationReconciler, each run builds its own
\* ledger, no add_entry of one run appends to the other run's ledger, and
\* each run's ledger and safety issues are what the run produces alone; the
\* normalizer and the safety validator keep no state between calls.
C22_RunIsolation ==
    [](OwnLedgers /\ AsAlone) /\ [][NoForeignAppend]_vars

\* C22 witness: both requests are inside the loops of _build_ledger at the
\* same time, each with an entry in its ledger, and the two ledgers differ.
C22_Witness ==
    \E t, u \in REQUESTS :
        /\ t # u
        /\ requests[t].pc \in {"baseline loop", "reference loop"}
        /\ requests[u].pc \in {"baseline loop", "reference loop"}
        /\ RequestEntries(t) # <<>>
        /\ RequestEntries(u) # <<>>
        /\ RequestEntries(t) # RequestEntries(u)

\* C23: the ledger does not depend on the external reasoning service.  For
\* fixed baseline and reference lists, two reconcile runs that receive
\* different LLM outputs produce ledgers with identical entries and
\* identical validate_completeness results.
C23_LedgerIndependentOfLLM ==
    \A t, u \in REQUESTS :
        (/\ requests[t].baseline_meds = requests[u].baseline_meds
         /\ requests[t].reference_meds = requests[u].reference_meds
         /\ requests[t].llm_output # requests[u].llm_output
         /\ RequestBuilt(t)
         /\ RequestBuilt(u)) =>
            /\ RequestEntries(t) = RequestEntries(u)
            /\ (RequestValidated(t) /\ RequestValidated(u)) =>
                   requests[t].validation = requests[u].validation

\* C23 witness: two finished runs on the same non-empty lists that got
\* different texts from the model engine.
C23_Witness ==
    \E t, u \in REQUESTS :
        /\ requests[t].pc = "done"
        /\ requests[u].pc = "done"
        /\ requests[t].baseline_meds = requests[u].baseline_meds
        /\ requests[t].reference_meds = requests[u].reference_meds
        /\ requests[t].llm_output = "reconciliation text A"
        /\ requests[u].llm_output = "reconciliation text B"
        /\ RequestEntries(t) # <<>>
        /\ RequestEntries(t) = RequestEntries(u)
        /\ requests[t].validation = requests[u].validation

=============================================================================
